---------------------------- MODULE Spec2Model ----------------------------
(***************************************************************************)
(* A model of the three-webgpu-webxr-sandbox application:                  *)
(*   - RenderLoop        (core/RenderLoop.ts, held in src/unnamed/part_000) *)
(*   - XRSessionManager  (src/src/core/XRSessionManager.ts)                *)
(*   - App.xrRenderFrame (src/src/main.ts) with the parts of ThreeRenderer *)
(*     it reads.                                                           *)
(* Every class is modelled by pure operators over a record of its fields   *)
(* (named as in the source); an action applies one operator to the         *)
(* variables, so a handler that calls other methods is one step.           *)
(***************************************************************************)
EXTENDS Integers, Sequences, FiniteSets, TLC

(***************************************************************************)
(* Bounds of the model.                                                    *)
(***************************************************************************)
\* number of distinct XRSession objects the host hands out
NumSessions == 2
\* most callbacks waiting at one time, on the window's and the sessions' schedulers together
MaxPending == 3

Sessions == 1..NumSessions

\* `null` for an XRSession reference, and for a requestAnimationFrame handle
NoSession == 0
NoId == 0
\* `null` for a FrameCallback; an omitted optional argument is the same value
NoCallback == "null"

\* the two frame callbacks the application passes to the loop
Callbacks == {"renderToCanvas", "xrRenderFrame"}

\* handles window.requestAnimationFrame can return.  The program only stores
\* a handle and passes it back to cancelAnimationFrame, so the model returns
\* the smallest handle that is neither pending nor stored.
RafIds == 1..(MaxPending + 2)

(***************************************************************************)
(* State of the render loop and of the two schedulers it talks to.         *)
(***************************************************************************)
VARIABLES
    callback,           \* RenderLoop.callback
    xrSession,          \* RenderLoop.xrSession
    running,            \* RenderLoop.running
    animationFrameId,   \* RenderLoop.animationFrameId
    windowRaf,          \* window: handles of the pending animation-frame requests, in request order
    sessionRaf,         \* per session: number of pending session.requestAnimationFrame callbacks
    invoked,            \* callbacks invoked by the last step, in order: <<callback, withXRFrame>>
    lastOp,             \* history: the last step, its arguments, and whether the loop was
                        \* running and which session it was bound to when the step began
    staleTicks          \* history: per session, the pending callbacks that were already pending
                        \* when a running loop was last switched from that session to no session

loopVars == <<callback, xrSession, running, animationFrameId, windowRaf, sessionRaf, invoked,
              lastOp, staleTicks>>

(***************************************************************************)
(* State of the session manager and of the WebXR host.                     *)
(***************************************************************************)
VARIABLES
    xrManager,          \* XRSessionManager: session, xrGpuBinding, projectionLayer, refSpace,
                        \* device, eventListeners
    xrHost,             \* navigator.xr: present or not, the sessions handed out and their state
    requests,           \* the requestSession() calls: position, host interactions, outcome
    events,             \* the events emitted by the last step, each with the listeners called
                        \* and the manager's fields as the listeners saw them
    lastCall            \* history: the last step on the manager, how the call it settled ended,
                        \* and whether the last event emitted so far is a 'sessionstart'

managerVars == <<xrManager, xrHost, requests, events, lastCall>>

\* what a step that settles no call reports
NoOutcome == [outcome |-> "pending", trace |-> <<>>]

ManagerState ==
    [m |-> xrManager, host |-> xrHost, req |-> requests, events |-> <<>>, out |-> NoOutcome]

SetManager(W) ==
    /\ xrManager' = W.m
    /\ xrHost' = W.host
    /\ requests' = W.req
    /\ events' = W.events

\* the loop's fields and schedulers as one record, the value the operators below transform
LoopState ==
    [callback |-> callback, xrSession |-> xrSession, running |-> running,
     animationFrameId |-> animationFrameId, windowRaf |-> windowRaf,
     sessionRaf |-> sessionRaf, invoked |-> <<>>]

SetLoop(L) ==
    /\ callback' = L.callback
    /\ xrSession' = L.xrSession
    /\ running' = L.running
    /\ animationFrameId' = L.animationFrameId
    /\ windowRaf' = L.windowRaf
    /\ sessionRaf' = L.sessionRaf
    /\ invoked' = L.invoked

Range(s) == {s[i] : i \in DOMAIN s}

Remove(s, x) == SelectSeq(s, LAMBDA y : y # x)

(***************************************************************************)
(* The host's schedulers.                                                  *)
(***************************************************************************)
FreshId(L) ==
    CHOOSE i \in RafIds :
        /\ i \notin Range(L.windowRaf) \cup {L.animationFrameId}
        /\ \A j \in RafIds : j < i => j \in Range(L.windowRaf) \cup {L.animationFrameId}

\* window.requestAnimationFrame(tick): the request joins the window's list
requestAnimationFrame(L, id) == [L EXCEPT !.windowRaf = Append(@, id)]

\* window.cancelAnimationFrame(id)
cancelAnimationFrame(L, id) == [L EXCEPT !.windowRaf = Remove(@, id)]

\* session.requestAnimationFrame(tick): the returned handle is dropped by the caller
sessionRequestAnimationFrame(L, s) == [L EXCEPT !.sessionRaf[s] = @ + 1]

(***************************************************************************)
(* RenderLoop                                                              *)
(***************************************************************************)
runNormalLoop(L) ==
    LET id == FreshId(L)
    IN  [requestAnimationFrame(L, id) EXCEPT !.animationFrameId = id]

runXRLoop(L) ==
    IF L.xrSession = NoSession THEN L
    ELSE sessionRequestAnimationFrame(L, L.xrSession)

\* start without the `already running` early return
start_restarts(L, cb) ==
    LET L1 == [L EXCEPT !.callback = cb, !.running = TRUE]
    IN  IF L1.xrSession # NoSession THEN runXRLoop(L1) ELSE runNormalLoop(L1)

start(L, cb) ==
    IF L.running THEN L
    ELSE LET L1 == [L EXCEPT !.callback = cb, !.running = TRUE]
         IN  IF L1.xrSession # NoSession THEN runXRLoop(L1) ELSE runNormalLoop(L1)

stop(L) ==
    LET L1 == [L EXCEPT !.running = FALSE]
        L2 == IF L1.animationFrameId # NoId /\ L1.xrSession = NoSession
              THEN [cancelAnimationFrame(L1, L1.animationFrameId) EXCEPT !.animationFrameId = NoId]
              ELSE L1
    IN  [L2 EXCEPT !.callback = NoCallback]

\* setXRSession that re-enters the loop whether or not it was running
setXRSession_alwaysRestarts(L, session, newCallback) ==
    LET L1 == IF L.animationFrameId # NoId
              THEN [cancelAnimationFrame(L, L.animationFrameId) EXCEPT !.animationFrameId = NoId]
              ELSE L
        L2 == [L1 EXCEPT !.running = FALSE, !.xrSession = session]
        L3 == IF newCallback # NoCallback THEN [L2 EXCEPT !.callback = newCallback] ELSE L2
    IN  IF L3.callback # NoCallback
        THEN LET L4 == [L3 EXCEPT !.running = TRUE]
             IN  IF session # NoSession THEN runXRLoop(L4) ELSE runNormalLoop(L4)
        ELSE L3

setXRSession(L, session, newCallback) ==
    LET L1 == IF L.animationFrameId # NoId
              THEN [cancelAnimationFrame(L, L.animationFrameId) EXCEPT !.animationFrameId = NoId]
              ELSE L
        wasRunning == L1.running
        L2 == [L1 EXCEPT !.running = FALSE, !.xrSession = session]
        L3 == IF newCallback # NoCallback THEN [L2 EXCEPT !.callback = newCallback] ELSE L2
    IN  IF wasRunning /\ L3.callback # NoCallback
        THEN LET L4 == [L3 EXCEPT !.running = TRUE]
             IN  IF session # NoSession THEN runXRLoop(L4) ELSE runNormalLoop(L4)
        ELSE L3

\* the closure `tick` of runNormalLoop, run by the window for one request
normalTick(L) ==
    IF ~L.running \/ L.xrSession # NoSession THEN L
    ELSE LET L1 == IF L.callback # NoCallback
                   THEN [L EXCEPT !.invoked = Append(@, <<L.callback, FALSE>>)]
                   ELSE L
             id == FreshId(L1)
         IN  [requestAnimationFrame(L1, id) EXCEPT !.animationFrameId = id]

\* the closure `tick` of runXRLoop, run by a session for one request
xrTick(L) ==
    IF ~L.running \/ L.xrSession = NoSession THEN L
    ELSE LET L1 == IF L.callback # NoCallback
                   THEN [L EXCEPT !.invoked = Append(@, <<L.callback, TRUE>>)]
                   ELSE L
         IN  sessionRequestAnimationFrame(L1, L1.xrSession)

(***************************************************************************)
(* One animation frame of a scheduler: the requests pending when the frame *)
(* begins are taken off the list and their callbacks run one after the     *)
(* other; requests made meanwhile wait for the next frame.                 *)
(***************************************************************************)
RECURSIVE RunTicks(_, _, _)
RunTicks(L, n, xr) ==
    IF n = 0 THEN L
    ELSE RunTicks(IF xr THEN xrTick(L) ELSE normalTick(L), n - 1, xr)

windowFrame(L) ==
    RunTicks([L EXCEPT !.windowRaf = <<>>], Len(L.windowRaf), FALSE)

sessionFrame(L, s) ==
    RunTicks([L EXCEPT !.sessionRaf[s] = 0], L.sessionRaf[s], TRUE)

RECURSIVE SumOver(_, _)
SumOver(f, S) ==
    IF S = {} THEN 0
    ELSE LET x == CHOOSE y \in S : TRUE IN f[x] + SumOver(f, S \ {x})

Bounded(L) == Len(L.windowRaf) + SumOver(L.sessionRaf, Sessions) <= MaxPending

(***************************************************************************)
(* State of the renderer, the blitter and the headset frame routine.       *)
(***************************************************************************)
VARIABLES
    threeRenderer,      \* ThreeRenderer: _initialized, renderTarget, cachedGPUTexture,
                        \* renderTargetInitialized
    gpuBackend,         \* three.js/WebGPU: render targets made, those with a GPU texture, those disposed
    blitter,            \* XRBlitter: pipelineCache, and the pipelines its device has made
    frame,              \* what the last xrRenderFrame did, in order
    lastFrame           \* history: the inputs of the last xrRenderFrame

frameVars == <<threeRenderer, gpuBackend, blitter, frame, lastFrame>>

RenderState ==
    [tr |-> threeRenderer, backend |-> gpuBackend, blitter |-> blitter, frame |-> <<>>]

SetRender(R) ==
    /\ threeRenderer' = R.tr
    /\ gpuBackend' = R.backend
    /\ blitter' = R.blitter
    /\ frame' = R.frame

(***************************************************************************)
(* XRSessionManager and the WebXR host it negotiates with.                 *)
(*                                                                         *)
(* The operators transform a record W with the fields                      *)
(*   m      the manager's fields                                           *)
(*   host   navigator.xr and the sessions it has handed out                *)
(*   req    the requestSession() calls in flight: where each one waits,    *)
(*          the host interactions it has made, and how it ended            *)
(*   events the events emitted by the step                                 *)
(*   out    how the call that settled in this step ended                   *)
(* An object reference is a tuple naming what the object was made from, and *)
(* <<>> is null.                                                           *)
(***************************************************************************)
NullObj == <<>>
NoDevice == "null"
GpuDevice == "gpuDevice"

\* colour formats XRGPUBinding.getPreferredColorFormat can answer
Formats == {"rgba8unorm", "bgra8unorm"}

\* requestSession() calls that can be in flight together
MaxCalls == 2
Calls == 1..MaxCalls

\* callbacks the application can register as listeners
Listeners == {"onXRSessionStart", "onXRSessionEnd"}

EventTypes == {"sessionstart", "sessionend"}

Log(W, c, what) == [W EXCEPT !.req[c].trace = Append(@, what)]

IdleRequest == [pc |-> "idle", trace |-> <<>>, doomed |-> FALSE, asked |-> NoSession]

\* the call returns or throws: its promise settles with `how`, and its slot is free again
Settle(W, c, how) ==
    [W EXCEPT !.req[c] = IdleRequest,
              !.out = [outcome |-> how, trace |-> W.req[c].trace]]

\* emitEvent: the listeners of the event, in registration order, each called with the payload
emitEvent(W, event, payload) ==
    [W EXCEPT !.events = Append(@,
        [type |-> event, payload |-> payload, listeners |-> W.m.eventListeners[event],
         seen |-> [session |-> W.m.session, xrGpuBinding |-> W.m.xrGpuBinding,
                   projectionLayer |-> W.m.projectionLayer, refSpace |-> W.m.refSpace]])]

setDevice(W, d) == [W EXCEPT !.m.device = d]

\* on(event, callback) that adds the callback whether or not it is registered
on_appendsAlways(W, event, l) == [W EXCEPT !.m.eventListeners[event] = Append(@, l)]

\* on(event, callback): Set.add keeps one entry per callback, in insertion order
on(W, event, l) ==
    IF l \in Range(W.m.eventListeners[event]) THEN W
    ELSE [W EXCEPT !.m.eventListeners[event] = Append(@, l)]

\* off(event, callback): Set.delete
off(W, event, l) == [W EXCEPT !.m.eventListeners[event] = Remove(@, l)]

\* navigator.xr.requestSession('immersive-vr', {requiredFeatures: ['webgpu']}): the host
\* rejects a request made while an immersive session is pending or active
xrRequestSession(W, c) ==
    LET busy == W.host.pending \/ \E s \in Sessions : W.host.sessions[s] \in {"active", "ending"}
    IN  [Log(W, c, <<"xr.requestSession", "immersive-vr", "webgpu">>)
            EXCEPT !.req[c].pc = "awaitSession",
                   !.req[c].doomed = busy,
                   !.host.pending = IF busy THEN @ ELSE TRUE]

\* requestSession that looks for navigator.xr before it looks at the device
requestSession_xrFirst(W, c) ==
    LET W0 == [W EXCEPT !.req[c] = [IdleRequest EXCEPT !.pc = "running"]]
        W1 == Log(W0, c, <<"navigator.xr">>)
    IN  IF ~W1.host.navigatorXr
        THEN Settle(W1, c, "throw: WebXR is not supported")
        ELSE IF W1.m.device = NoDevice
             THEN Settle(W1, c, "throw: GPU device not set")
             ELSE IF W1.m.session # NoSession
                  THEN Settle(W1, c, "return: already active")
                  ELSE xrRequestSession(W1, c)

\* requestSession without the `session already active` early return
requestSession_noActiveCheck(W, c) ==
    LET W0 == [W EXCEPT !.req[c] = [IdleRequest EXCEPT !.pc = "running"]]
    IN  IF W0.m.device = NoDevice
        THEN Settle(W0, c, "throw: GPU device not set")
        ELSE LET W1 == Log(W0, c, <<"navigator.xr">>)
             IN  IF ~W1.host.navigatorXr
                 THEN Settle(W1, c, "throw: WebXR is not supported")
                 ELSE xrRequestSession(W1, c)

\* requestSession(), from the call to its first await
requestSession(W, c) ==
    LET W0 == [W EXCEPT !.req[c] = [IdleRequest EXCEPT !.pc = "running"]]
    IN  IF W0.m.device = NoDevice
        THEN Settle(W0, c, "throw: GPU device not set")
        ELSE LET W1 == Log(W0, c, <<"navigator.xr">>)
             IN  IF ~W1.host.navigatorXr
                 THEN Settle(W1, c, "throw: WebXR is not supported")
                 ELSE IF W1.m.session # NoSession
                      THEN Settle(W1, c, "return: already active")
                      ELSE xrRequestSession(W1, c)

\* the host rejects the session request: the await throws
requestSession_rejected(W, c) ==
    Settle([W EXCEPT !.host.pending = IF W.req[c].doomed THEN @ ELSE FALSE], c,
           "throw: session request rejected")

\* the host grants session s: from the first await to the await of updateRenderState.
\* fmt is the host's preferred colour format; okLayer and okState tell whether the
\* host accepts createProjectionLayer and updateRenderState or throws.
requestSession_granted(W, c, s, fmt, okLayer, okState) ==
    LET W1 == [W EXCEPT !.host.pending = FALSE, !.host.sessions[s] = "active",
                        !.m.session = s]
        W2 == [Log(W1, c, <<"addEventListener", "end">>)
                  EXCEPT !.host.endListener = @ \cup {s}]
        W3 == [Log(W2, c, <<"new XRGPUBinding", W2.m.session, W2.m.device>>)
                  EXCEPT !.m.xrGpuBinding = <<W2.m.session, W2.m.device>>]
        W4 == Log(W3, c, <<"getPreferredColorFormat", fmt>>)
        W5 == Log(W4, c, <<"createProjectionLayer", fmt, "depth24plus", "RENDER_ATTACHMENT|COPY_DST">>)
        W6 == [W5 EXCEPT !.m.projectionLayer = <<s, fmt>>]
        W7 == Log(W6, c, <<"updateRenderState", W6.m.projectionLayer>>)
    IN  IF ~okLayer THEN Settle(W5, c, "throw: createProjectionLayer")
        ELSE IF ~okState THEN Settle(W7, c, "throw: updateRenderState")
        ELSE [W7 EXCEPT !.req[c].pc = "awaitRenderState"]

\* this.session.requestReferenceSpace(type); with this.session null the call is a TypeError
requestReferenceSpace(W, c, type, next) ==
    IF W.m.session = NoSession THEN Settle(W, c, "throw: TypeError")
    ELSE [Log(W, c, <<"requestReferenceSpace", type>>)
            EXCEPT !.req[c].pc = next, !.req[c].asked = W.m.session]

\* this.refSpace = (the awaited reference space); emitEvent('sessionstart', this.session)
requestSession_finish(W, c, type) ==
    LET W1 == [W EXCEPT !.m.refSpace = <<W.req[c].asked, type>>]
        W2 == emitEvent(Log(W1, c, <<"emit", "sessionstart">>), "sessionstart", W1.m.session)
    IN  Settle(W2, c, "return: started")

\* after the await of updateRenderState: the try block asks for 'local-floor'; a
\* TypeError thrown there is caught like a rejection and the fallback runs at once
requestSession_afterRenderState(W, c) ==
    IF W.m.session = NoSession
    THEN requestReferenceSpace(W, c, "local", "awaitLocal")
    ELSE requestReferenceSpace(W, c, "local-floor", "awaitLocalFloor")

\* requestSession that gives up when the 'local-floor' request is rejected
requestSession_afterLocalFloor_noFallback(W, c, ok) ==
    LET W1 == Log(W, c, <<"settled", "local-floor", ok>>)
    IN  IF ok THEN requestSession_finish(W1, c, "local-floor")
        ELSE Settle(W1, c, "throw: reference space rejected")

\* the host settles the 'local-floor' request: fulfilled (ok) or rejected
requestSession_afterLocalFloor(W, c, ok) ==
    LET W1 == Log(W, c, <<"settled", "local-floor", ok>>)
    IN  IF ok THEN requestSession_finish(W1, c, "local-floor")
        ELSE requestReferenceSpace(W1, c, "local", "awaitLocal")

\* the host settles the 'local' request: fulfilled (ok) or rejected
requestSession_afterLocal(W, c, ok) ==
    LET W1 == Log(W, c, <<"settled", "local", ok>>)
    IN  IF ok THEN requestSession_finish(W1, c, "local")
        ELSE Settle(W1, c, "throw: reference space rejected")

\* endSession(): session.end() on a session that is no longer active rejects
endSession(W) ==
    IF W.m.session = NoSession THEN W
    ELSE IF W.host.sessions[W.m.session] = "active"
         THEN [W EXCEPT !.host.sessions[W.m.session] = "ending"]
         ELSE W

\* onSessionEnd that forgets to clear the reference space
onSessionEnd_keepsRefSpace(W) ==
    LET W1 == emitEvent(W, "sessionend", NoSession)
    IN  [W1 EXCEPT !.m.session = NoSession, !.m.xrGpuBinding = NullObj,
                   !.m.projectionLayer = NullObj]

\* onSessionEnd, the manager's listener of the session's 'end' event
onSessionEnd(W) ==
    LET W1 == emitEvent(W, "sessionend", NoSession)
    IN  [W1 EXCEPT !.m.session = NoSession, !.m.xrGpuBinding = NullObj,
                   !.m.projectionLayer = NullObj, !.m.refSpace = NullObj]

\* the host ends session s (after end(), or on its own) and dispatches 'end'
sessionEnds(W, s) ==
    LET W1 == [W EXCEPT !.host.sessions[s] = "ended"]
    IN  IF s \in W.host.endListener THEN onSessionEnd(W1) ELSE W1

\* the first session the host has not handed out yet
NextSession(W) == CHOOSE s \in Sessions :
    W.host.sessions[s] = "none" /\ \A t \in Sessions : t < s => W.host.sessions[t] # "none"

(***************************************************************************)
(* ThreeRenderer (the version with the cached GPU texture), XRBlitter and  *)
(* App.xrRenderFrame.  The operators transform a record R with the fields  *)
(*   tr       the ThreeRenderer's fields                                    *)
(*   backend  the render targets made so far (made), those three.js has     *)
(*            given a GPU texture (textured) and those disposed (disposed)  *)
(*   blitter  the XRBlitter's fields                                        *)
(*   frame    the calls made by the frame routine, in order                 *)
(* A render target is <<n>>, the n-th one made; its GPU texture is <<n>>.   *)
(***************************************************************************)
\* most views in a viewer pose
MaxViews == 2
\* most render targets made
MaxTargets == 2

Did(R, what) == [R EXCEPT !.frame = Append(@, what)]

\* renderer.setRenderTarget(target); renderer.render(scene, camera): three.js creates
\* the target's GPU texture when it first renders into it
render(R) == [R EXCEPT !.backend.textured = @ \cup {R.tr.renderTarget}]

createRenderTarget(R) ==
    LET R1 == IF R.tr.renderTarget # NullObj
              THEN [R EXCEPT !.backend.disposed = @ \cup {R.tr.renderTarget}]
              ELSE R
        n == R.backend.made + 1
    IN  [R1 EXCEPT !.tr.cachedGPUTexture = NullObj,
                   !.tr.renderTargetInitialized = FALSE,
                   !.tr.renderTarget = <<n>>,
                   !.backend.made = n]

\* backend.get(renderTarget.texture)?.texture || null
extractGPUTexture(R) ==
    IF R.tr.renderTarget = NullObj THEN NullObj
    ELSE IF R.tr.renderTarget \in R.backend.textured THEN R.tr.renderTarget
    ELSE NullObj

initializeRenderTarget(R) ==
    IF R.tr.renderTarget = NullObj \/ R.tr.renderTargetInitialized THEN R
    ELSE LET R1 == render(R)
         IN  [R1 EXCEPT !.tr.cachedGPUTexture = extractGPUTexture(R1),
                        !.tr.renderTargetInitialized = TRUE]

renderToTarget(R) ==
    IF ~R.tr._initialized THEN R
    ELSE IF R.tr.renderTarget = NullObj THEN R
    ELSE render(R)

renderForXR(R) ==
    IF ~R.tr._initialized THEN R
    ELSE IF R.tr.renderTarget = NullObj THEN R
    ELSE IF ~R.tr.renderTargetInitialized THEN initializeRenderTarget(R)
    ELSE render(R)

getRenderTargetGPUTexture(R) == R.tr.cachedGPUTexture

\* ThreeRenderer.dispose
dispose(R) ==
    IF R.tr.renderTarget # NullObj
    THEN [R EXCEPT !.backend.disposed = @ \cup {R.tr.renderTarget},
                   !.tr.renderTarget = NullObj]
    ELSE R

\* new RenderTarget(width, height, {format: RGBAFormat, type: UnsignedByteType}): the
\* format of the texture the views are rendered into
SourceFormat == "rgba8unorm"

\* device.createRenderPipeline({... targets: [{format: targetFormat}]}): the pipeline
\* is <<targetFormat>>, and the device counts the pipelines it made per format
createRenderPipeline(R, targetFormat) ==
    [R EXCEPT !.blitter.created[targetFormat] = @ + 1]

\* getPipeline that keeps one pipeline, whatever format it was made for
getPipeline_oneForAll(R, targetFormat) ==
    IF \E f \in Formats : R.blitter.pipelineCache[f] # NullObj
    THEN LET f == CHOOSE g \in Formats : R.blitter.pipelineCache[g] # NullObj
         IN  [R EXCEPT !.blitter.pipelineCache[targetFormat] = R.blitter.pipelineCache[f]]
    ELSE [createRenderPipeline(R, targetFormat)
            EXCEPT !.blitter.pipelineCache[targetFormat] = <<targetFormat>>]

\* XRBlitter.getPipeline: one pipeline per target format, made on first use; the
\* pipeline it returns is the cache's entry for the format afterwards
getPipeline(R, targetFormat) ==
    IF R.blitter.pipelineCache[targetFormat] # NullObj THEN R
    ELSE [createRenderPipeline(R, targetFormat)
            EXCEPT !.blitter.pipelineCache[targetFormat] = <<targetFormat>>]

\* XRBlitter.blit(commandEncoder, sourceTexture, xrSubImage, shouldLog, eyeIndex): the
\* sub-image is [format, imageIndex, hasIndex]; without an image index the layer is
\* eyeIndex.  There is one way to transfer: a render pass that draws the quad with the
\* pipeline, whose fragment shader returns (b, g, r, a).
blit(R, sourceTexture, xrSubImage, eyeIndex) ==
    LET layerIndex == IF xrSubImage.hasIndex THEN xrSubImage.imageIndex ELSE eyeIndex
        R1 == getPipeline(R, xrSubImage.format)
        pipeline == R1.blitter.pipelineCache[xrSubImage.format]
    IN  Did(R1, <<"blit", sourceTexture, xrSubImage.format, layerIndex, "draw", "swapRB",
                  pipeline[1]>>)

\* xrGpuBinding.getViewSubImage(projectionLayer, view) for the view at position i (from 0)
getViewSubImage(projectionLayer, i, hasIndex) ==
    [format |-> projectionLayer[2], imageIndex |-> i, hasIndex |-> hasIndex]

\* DemoScene.compute(renderer): steps every emitter's simulation.  No code of the
\* application calls it; the frame routine below goes from update to the views.
compute(R) == Did(R, <<"demoScene.compute">>)

\* the body of `for (const view of pose.views)`, for the views at positions i..n-1;
\* blit is called without eyeIndex, which then takes its default
RECURSIVE RenderViews(_, _, _, _, _, _)
RenderViews(R, m, sourceTexture, i, n, hasIndex) ==
    IF i >= n THEN R
    ELSE LET R1 == Did(R, <<"updateCameraFromXRView", i>>)
             R2 == Did(renderToTarget(R1), <<"renderToTarget", i>>)
             subImage == getViewSubImage(m.projectionLayer, i, hasIndex)
             R3 == blit(Did(R2, <<"getViewSubImage", i>>), sourceTexture, subImage, 0)
         IN  RenderViews(R3, m, sourceTexture, i + 1, n, hasIndex)

\* App.xrRenderFrame(time, xrFrame), on an App whose init() has made the renderer and
\* the blitter (the loop only runs then): m is the session manager, views the number of
\* views of the viewer pose (0: getViewerPose answers null), hasIndex whether the
\* host's sub-images carry an image index
xrRenderFrame(R, m, views, hasIndex) ==
    IF m.xrGpuBinding = NullObj \/ m.projectionLayer = NullObj \/ m.refSpace = NullObj
    THEN R
    ELSE LET R1 == Did(Did(R, <<"demoScene.update">>), <<"getViewerPose">>)
             sourceTexture == getRenderTargetGPUTexture(R1)
         IN  IF views = 0 THEN R1
             ELSE IF sourceTexture = NullObj THEN R1
             ELSE LET R2 == Did(R1, <<"createCommandEncoder">>)
                      R3 == RenderViews(R2, m, sourceTexture, 0, views, hasIndex)
                  IN  Did(R3, <<"queue.submit">>)

(***************************************************************************)
(* LinkedParticles: one emitter and the three compute stages it dispatches. *)
(*                                                                         *)
(* Numbers are integers on a grid.  A life of 1.0 is LifeOne; a time is in  *)
(* the unit the frame delta and the lifetime share; a position is one       *)
(* coordinate in hundredths (the stages treat x, y and z alike).  The drift *)
(* of a live particle (velocity, turbulence) is left out: a particle stays  *)
(* where it was spawned.  pow(x, 0.8) keeps 0 and the order of its          *)
(* arguments; a ribbon's alpha is kept as the x it is taken of.             *)
(***************************************************************************)
VARIABLES
    emitter,            \* LinkedParticles: nbParticles, nbToSpawn, spawnIndex, spawnEnabled,
                        \* initialized, particleLifetime, spawnPosition, previousSpawnPosition,
                        \* particlePositions (xyz, w = life), linksColors (w of the two ribbons)
    deltaTime,          \* the frame delta the shaders read, constant over a run
    afterInit,          \* history: the emitter as the Init stage left it, <<>> before
    inits,              \* history: the Init stages dispatched so far
    moves,              \* history: the calls of setSpawnPosition and setParams so far
    frames,             \* history: the calls of compute so far
    age,                \* history: per slot, the Integrate stages it was alive for since its spawn
    lastParticleOp      \* history: the last step on the emitter and its argument

particleVars == <<emitter, deltaTime, afterInit, inits, moves, frames, age, lastParticleOp>>

VARIABLES
    gpu                 \* the WebGPUContext and the devices of the host

contextVars == <<gpu>>

\* most particles of an emitter
MaxParticles == 3
\* most calls of setSpawnPosition in a run
MaxMoves == 1
\* most calls of compute in a run
MaxFrames == 3

\* life.assign(1.0)
LifeOne == 4
\* particlePositions.w = -1.0, the life the Init stage gives every slot
Sentinel == 0 - LifeOne
\* vec3(10000.0), where the Init stage parks every slot
Far == 1000000
\* float(10000.0), the squared distance the neighbour scan starts from
FarDist == 100000000
\* the position 0/0 leaves behind; every comparison with it is false
NaN == 0 - 999999
\* rRange = 0.01, the radius of the random offset of a spawned particle
rRange == 1
\* new Vector3(0, 1.5, -1): the y coordinate of the first spawn position
StartPosition == 150

\* options.particleLifetime
Lifetimes == {1, 2}
\* frame deltas
Deltas == {10, 20}
\* positions passed to setSpawnPosition
Targets == {0, 200150}

Slots(E) == 0..(E.nbParticles - 1)

\* new LinkedParticles({nbParticles, nbToSpawn, particleLifetime}): the buffers are
\* new Float32Arrays, all zero
newLinkedParticles(n, k, lifetime) ==
    [nbParticles |-> n, nbToSpawn |-> k, particleLifetime |-> lifetime,
     spawnPosition |-> StartPosition, previousSpawnPosition |-> StartPosition,
     spawnIndex |-> 0, spawnEnabled |-> 0, initialized |-> FALSE,
     particlePositions |-> [i \in 0..(n - 1) |-> [xyz |-> 0, w |-> 0]],
     linksColors |-> [i \in 0..(n - 1) |-> <<0, 0>>],
     stages |-> <<>>,
     \* the other tunables, in thousandths
     turbFrequency |-> 500, turbAmplitude |-> 500, turbFriction |-> 10,
     colorVariance |-> 2000, _colorRotationSpeed |-> 1000,
     velocityBiasX |-> 0, velocityBiasY |-> 0, velocityBiasZ |-> 0,
     particleSize |-> 1000, linksWidth |-> 5]

\* Vector3.lerp(v, alpha) with alpha = 0.1, rounded to the grid
lerp(a, v) == a + ((v - a) \div 10)

setSpawnPosition_jumps(E, position) ==
    [E EXCEPT !.previousSpawnPosition = E.spawnPosition,
              !.spawnPosition = position]

setSpawnPosition(E, position) ==
    [E EXCEPT !.previousSpawnPosition = E.spawnPosition,
              !.spawnPosition = lerp(E.spawnPosition, position)]

setSpawnEnabled(E, enabled) == [E EXCEPT !.spawnEnabled = IF enabled THEN 1 ELSE 0]

initFn_alive(E) ==
    [E EXCEPT !.particlePositions = [i \in Slots(E) |-> [xyz |-> Far, w |-> LifeOne]],
              !.stages = Append(E.stages, "init")]

\* initFn().compute(nbParticles): every invocation parks its own slot
initFn(E) ==
    [E EXCEPT !.particlePositions = [i \in Slots(E) |-> [xyz |-> Far, w |-> Sentinel]],
              !.stages = Append(E.stages, "init")]

Decay_unscaled(E, dT) == (LifeOne * dT) \div E.particleLifetime

\* dt.mul(particleLifetime.reciprocal()) with dt = deltaTime * 0.1 * timeScale, timeScale = 1
Decay(E, dT) == (LifeOne * dT) \div (10 * E.particleLifetime)

\* the life of slot i once its invocation of updateFn has written it
Aged(E, dT, i) ==
    LET life == E.particlePositions[i].w
    IN  IF life > 0 THEN life - Decay(E, dT) ELSE life

\* What the invocation of slot me reads from the particle buffer: the invocations of one
\* dispatch run unordered, so it finds the life of a slot in `late` already written.
View(E, dT, late, me) ==
    [i \in Slots(E) |->
        IF i = me \/ i \in late
        THEN [E.particlePositions[i] EXCEPT !.w = Aged(E, dT, i)]
        ELSE E.particlePositions[i]]

\* position.sub(otherPosition).lengthSq(); a NaN operand gives NaN, written -1 here as
\* it fails both dist < closest and dist > 0
lengthSq(a, b) == IF a = NaN \/ b = NaN THEN 0 - 1 ELSE (a - b) * (a - b)

\* Loop(nbParticles): the two nearest live others, from slot i on
RECURSIVE closest(_, _, _, _)
closest(view, me, i, c) ==
    IF i = Len(view) THEN c
    ELSE LET otherPart == view[i + 1]
             dist == lengthSq(view[me + 1].xyz, otherPart.xyz)
             moreThanZero == dist > 0
         IN  closest(view, me, i + 1,
                 IF i # me /\ otherPart.w > 0
                 THEN IF dist < c.closestDist1 /\ moreThanZero
                      THEN [closestDist1 |-> dist, closestLife1 |-> otherPart.w,
                            closestIndex1 |-> i,
                            closestDist2 |-> c.closestDist1, closestLife2 |-> c.closestLife1,
                            closestIndex2 |-> c.closestIndex1]
                      ELSE IF dist < c.closestDist2 /\ moreThanZero
                      THEN [c EXCEPT !.closestDist2 = dist, !.closestLife2 = otherPart.w,
                                     !.closestIndex2 = i]
                      ELSE c
                 ELSE c)

\* the scan's variables before the loop; no neighbour is index -1
NoNeighbours ==
    [closestDist1 |-> FarDist, closestLife1 |-> 0, closestIndex1 |-> 0 - 1,
     closestDist2 |-> FarDist, closestLife2 |-> 0, closestIndex2 |-> 0 - 1]

\* a function over 0..n-1 as the sequence the loop walks
AsSeq(f, n) == [k \in 1..n |-> f[k - 1]]

Neighbours(E, dT, late, me) ==
    closest(AsSeq(View(E, dT, late, me), E.nbParticles), me, 0, NoNeighbours)

Min(a, b) == IF a < b THEN a ELSE b
Max(a, b) == IF a > b THEN a ELSE b

updateFn_oneNeighbour(E, dT, late) ==
    [E EXCEPT
        !.particlePositions = [i \in Slots(E) |->
            [E.particlePositions[i] EXCEPT !.w = Aged(E, dT, i)]],
        !.linksColors = [i \in Slots(E) |->
            IF E.particlePositions[i].w > 0
            THEN LET c == Neighbours(E, dT, late, i)
                     life == Aged(E, dT, i)
                 IN  <<Max(0, Min(c.closestLife1, life)), Max(0, Min(c.closestLife1, life))>>
            ELSE E.linksColors[i]],
        !.stages = Append(E.stages, "update")]

\* updateFn().compute(nbParticles)
updateFn(E, dT, late) ==
    [E EXCEPT
        !.particlePositions = [i \in Slots(E) |->
            [E.particlePositions[i] EXCEPT !.w = Aged(E, dT, i)]],
        !.linksColors = [i \in Slots(E) |->
            IF E.particlePositions[i].w > 0
            THEN LET c == Neighbours(E, dT, late, i)
                     life == Aged(E, dT, i)
                 IN  <<Max(0, Min(c.closestLife1, life)), Max(0, Min(c.closestLife2, life))>>
            ELSE E.linksColors[i]],
        !.stages = Append(E.stages, "update")]

\* the invocation of spawnFn that writes slot i, or -1: (spawnIndex + instanceIndex) mod N = i
Spawner(E, i) ==
    LET instanceIndex == (i + E.nbParticles - E.spawnIndex) % E.nbParticles
    IN  IF instanceIndex < E.nbToSpawn THEN instanceIndex ELSE 0 - 1

\* rDir.mul(rRange): a direction hashed from the slot, one coordinate of it
Offset(particleIndex) == ((particleIndex % 3) - 1) * rRange

\* mix(previousSpawnPosition, spawnPosition, t) with t = instanceIndex / (nbToSpawn - 1)
\* clamped; for nbToSpawn = 1 that is 0 / 0 and u says what the division left
mix(E, instanceIndex, u) ==
    IF E.nbToSpawn = 1
    THEN CASE u = "previous" -> E.previousSpawnPosition
           [] u = "current" -> E.spawnPosition
           [] OTHER -> NaN
    ELSE E.previousSpawnPosition
         + (((E.spawnPosition - E.previousSpawnPosition) * instanceIndex)
            \div (E.nbToSpawn - 1))

Plus(pos, d) == IF pos = NaN THEN NaN ELSE pos + d

spawnFn_wholeRing(E, u) ==
    [E EXCEPT
        !.particlePositions = [i \in Slots(E) |->
            IF E.spawnEnabled >= 1
            THEN [xyz |-> Plus(mix(E, 0, u), Offset(i)), w |-> LifeOne]
            ELSE E.particlePositions[i]],
        !.stages = Append(E.stages, "spawn")]

\* spawnFn().compute(nbToSpawn)
spawnFn(E, u) ==
    [E EXCEPT
        !.particlePositions = [i \in Slots(E) |->
            IF E.spawnEnabled >= 1 /\ Spawner(E, i) >= 0
            THEN [xyz |-> Plus(mix(E, Spawner(E, i), u), Offset(i)), w |-> LifeOne]
            ELSE E.particlePositions[i]],
        !.stages = Append(E.stages, "spawn")]

initialize_everyCall(E) ==
    [initFn([E EXCEPT !.stages = <<>>]) EXCEPT !.initialized = TRUE]

\* LinkedParticles.compute(renderer), up to the Init stage
initialize(E) ==
    IF ~E.initialized
    THEN [initFn([E EXCEPT !.stages = <<>>]) EXCEPT !.initialized = TRUE]
    ELSE [E EXCEPT !.stages = <<>>]

\* the remainder operator on numbers: x % 0 and NaN % n are NaN
Remainder(x, n) == IF n = 0 \/ x = NaN THEN NaN ELSE x % n

LinkedParticles_compute_onlyWhenOn(E, dT, late, u) ==
    LET spawned == spawnFn(updateFn(initialize(E), dT, late), u)
    IN  IF E.spawnEnabled >= 1
        THEN [spawned EXCEPT !.spawnIndex = Remainder(E.spawnIndex + E.nbToSpawn, E.nbParticles)]
        ELSE spawned

\* LinkedParticles.compute(renderer)
LinkedParticles_compute(E, dT, late, u) ==
    LET spawned == spawnFn(updateFn(initialize(E), dT, late), u)
    IN  [spawned EXCEPT !.spawnIndex = Remainder(E.spawnIndex + E.nbToSpawn, E.nbParticles)]

\* material.opacityNode of the sprites: circle.mul(life), circle = 1 inside the disc
spriteOpacity(E, i, circle) == circle * E.particlePositions[i].w

\* material.opacityNode of the ribbons: the w of linksColors
ribbonOpacity(E, i, ribbon) == E.linksColors[i][ribbon]

\* the fields of ParticleParams
Tunables == {"particleLifetime", "turbFrequency", "turbAmplitude", "turbFriction",
             "colorVariance", "colorRotationSpeed", "velocityBias", "particleSize",
             "linksWidth"}

\* a ParticleParams object: val.f is its field f where f \in given, and the field
\* is undefined otherwise
Given(p, f) == f \in p.given

\* setParams that leaves the thread-side hue-rotation speed alone
setParams_noShadow(E, p) ==
    [E EXCEPT
       !.particleLifetime = IF Given(p, "particleLifetime") THEN p.val.particleLifetime ELSE @,
       !.turbFrequency = IF Given(p, "turbFrequency") THEN p.val.turbFrequency ELSE @,
       !.turbAmplitude = IF Given(p, "turbAmplitude") THEN p.val.turbAmplitude ELSE @,
       !.turbFriction = IF Given(p, "turbFriction") THEN p.val.turbFriction ELSE @,
       !.colorVariance = IF Given(p, "colorVariance") THEN p.val.colorVariance ELSE @,
       !.velocityBiasX = IF Given(p, "velocityBias") THEN p.val.velocityBias.x ELSE @,
       !.velocityBiasY = IF Given(p, "velocityBias") THEN p.val.velocityBias.y ELSE @,
       !.velocityBiasZ = IF Given(p, "velocityBias") THEN p.val.velocityBias.z ELSE @,
       !.particleSize = IF Given(p, "particleSize") THEN p.val.particleSize ELSE @,
       !.linksWidth = IF Given(p, "linksWidth") THEN p.val.linksWidth ELSE @]

setParams(E, p) ==
    [E EXCEPT
       !.particleLifetime = IF Given(p, "particleLifetime") THEN p.val.particleLifetime ELSE @,
       !.turbFrequency = IF Given(p, "turbFrequency") THEN p.val.turbFrequency ELSE @,
       !.turbAmplitude = IF Given(p, "turbAmplitude") THEN p.val.turbAmplitude ELSE @,
       !.turbFriction = IF Given(p, "turbFriction") THEN p.val.turbFriction ELSE @,
       !.colorVariance = IF Given(p, "colorVariance") THEN p.val.colorVariance ELSE @,
       !._colorRotationSpeed =
            IF Given(p, "colorRotationSpeed") THEN p.val.colorRotationSpeed ELSE @,
       !.velocityBiasX = IF Given(p, "velocityBias") THEN p.val.velocityBias.x ELSE @,
       !.velocityBiasY = IF Given(p, "velocityBias") THEN p.val.velocityBias.y ELSE @,
       !.velocityBiasZ = IF Given(p, "velocityBias") THEN p.val.velocityBias.z ELSE @,
       !.particleSize = IF Given(p, "particleSize") THEN p.val.particleSize ELSE @,
       !.linksWidth = IF Given(p, "linksWidth") THEN p.val.linksWidth ELSE @]

getParams(E) ==
    [particleLifetime |-> E.particleLifetime,
     turbFrequency |-> E.turbFrequency,
     turbAmplitude |-> E.turbAmplitude,
     turbFriction |-> E.turbFriction,
     colorVariance |-> E.colorVariance,
     colorRotationSpeed |-> E._colorRotationSpeed,
     velocityBias |-> [x |-> E.velocityBiasX, y |-> E.velocityBiasY, z |-> E.velocityBiasZ],
     particleSize |-> E.particleSize,
     linksWidth |-> E.linksWidth]

(***************************************************************************)
(* Steps on the emitter.                                                   *)
(***************************************************************************)
ParticleOp(name, arg) ==
    [op |-> name, arg |-> arg, wasFresh |-> ~emitter.initialized,
     afterMove |-> lastParticleOp.op = "setSpawnPosition"]

\* the emitters of a run: N slots, batches of K <= N
EmitterInit ==
    /\ \E n \in 1..MaxParticles, k \in 1..MaxParticles, lifetime \in Lifetimes :
            /\ k <= n
            /\ emitter = newLinkedParticles(n, k, lifetime)
            /\ age = [i \in 0..(n - 1) |-> 0]
    /\ deltaTime \in Deltas
    /\ afterInit = <<>>
    /\ inits = 0
    /\ moves = 0
    /\ frames = 0
    /\ lastParticleOp = [op |-> "new", arg |-> 0, wasFresh |-> TRUE, afterMove |-> FALSE]

\* the emitters the constructor returns: any count of particles, zero too
AnyEmitterInit ==
    /\ \E n \in 0..MaxParticles, k \in 1..MaxParticles, lifetime \in Lifetimes :
            /\ n = 0 \/ k <= n
            /\ emitter = newLinkedParticles(n, k, lifetime)
            /\ age = [i \in 0..(n - 1) |-> 0]
    /\ deltaTime \in Deltas
    /\ afterInit = <<>>
    /\ inits = 0
    /\ moves = 0
    /\ frames = 0
    /\ lastParticleOp = [op |-> "new", arg |-> 0, wasFresh |-> TRUE, afterMove |-> FALSE]

\* the emitter while nothing drives it
EmitterIdle ==
    /\ emitter = newLinkedParticles(1, 1, 1)
    /\ age = [i \in 0..0 |-> 0]
    /\ deltaTime = 5
    /\ afterInit = <<>>
    /\ inits = 0
    /\ moves = 0
    /\ frames = 0
    /\ lastParticleOp = [op |-> "new", arg |-> 0, wasFresh |-> TRUE, afterMove |-> FALSE]

CountOf(q, x) == Cardinality({k \in 1..Len(q) : q[k] = x})

SetSpawnPosition ==
    /\ moves < MaxMoves
    /\ \E position \in Targets :
        /\ emitter' = setSpawnPosition(emitter, position)
        /\ lastParticleOp' = ParticleOp("setSpawnPosition", position)
    /\ moves' = moves + 1
    /\ UNCHANGED <<deltaTime, afterInit, inits, frames, age>>

SetSpawnEnabled ==
    /\ \E enabled \in BOOLEAN :
        /\ emitter' = setSpawnEnabled(emitter, enabled)
        /\ lastParticleOp' = ParticleOp("setSpawnEnabled", IF enabled THEN 1 ELSE 0)
    /\ UNCHANGED <<deltaTime, afterInit, inits, moves, frames, age>>

\* a preset of the panel: every tunable away from the constructor's value
Tuned(lifetime) ==
    [particleLifetime |-> lifetime, turbFrequency |-> 1000, turbAmplitude |-> 250,
     turbFriction |-> 50, colorVariance |-> 500, colorRotationSpeed |-> 3000,
     velocityBias |-> [x |-> 100, y |-> 200, z |-> 300],
     particleSize |-> 2000, linksWidth |-> 10]

\* the objects handed to setParams: a whole preset, one field of it, or nothing
ParamInputs ==
    LET constructed == getParams(newLinkedParticles(1, 1, 1))
    IN  {[given |-> Tunables, val |-> v] : v \in {Tuned(l) : l \in Lifetimes} \cup {constructed}}
        \cup {[given |-> {f}, val |-> v] : f \in Tunables, v \in {Tuned(2), constructed}}
        \cup {[given |-> {}, val |-> constructed]}

SetParams ==
    /\ moves < MaxMoves
    /\ \E p \in ParamInputs :
        /\ emitter' = setParams(emitter, p)
        /\ lastParticleOp' = ParticleOp("setParams", p)
    /\ moves' = moves + 1
    /\ UNCHANGED <<deltaTime, afterInit, inits, frames, age>>

\* the slots whose invocation of updateFn writes a life others may read
Racing(E) == {i \in Slots(E) : E.particlePositions[i].w > 0}

Compute ==
    /\ frames < MaxFrames
    /\ frames' = frames + 1
    /\ \E late \in SUBSET Racing(emitter), u \in {"previous", "current", "nan"} :
        /\ emitter.nbToSpawn > 1 => u = "previous"
        /\ emitter' = LinkedParticles_compute(emitter, deltaTime, late, u)
    /\ afterInit' = IF "init" \in Range(emitter'.stages) THEN initialize(emitter) ELSE afterInit
    /\ inits' = inits + CountOf(emitter'.stages, "init")
    /\ age' = [i \in Slots(emitter) |->
                 IF emitter.spawnEnabled >= 1 /\ Spawner(emitter, i) >= 0 THEN 0
                 ELSE IF initialize(emitter).particlePositions[i].w > 0 THEN age[i] + 1
                 ELSE age[i]]
    /\ lastParticleOp' = ParticleOp("compute", 0)
    /\ UNCHANGED <<deltaTime, moves>>

(***************************************************************************)
(* Actions of the render loop.                                             *)
(***************************************************************************)
Op(name, s, cb) ==
    [op |-> name, session |-> s, cb |-> cb, wasRunning |-> running, wasSession |-> xrSession,
     staleRan |-> IF name = "sessionFrame" THEN staleTicks[s] ELSE 0]

LoopInit ==
    /\ callback = NoCallback
    /\ xrSession = NoSession
    /\ running = FALSE
    /\ animationFrameId = NoId
    /\ windowRaf = <<>>
    /\ sessionRaf = [s \in Sessions |-> 0]
    /\ invoked = <<>>
    /\ staleTicks = [s \in Sessions |-> 0]
    /\ lastOp = [op |-> "new", session |-> NoSession, cb |-> NoCallback, staleRan |-> 0,
                 wasRunning |-> FALSE, wasSession |-> NoSession]

Start ==
    \E cb \in Callbacks :
        /\ Bounded(start(LoopState, cb))
        /\ SetLoop(start(LoopState, cb))
        /\ lastOp' = Op("start", NoSession, cb)
        /\ UNCHANGED <<staleTicks, managerVars, frameVars, particleVars, contextVars>>

Stop ==
    /\ SetLoop(stop(LoopState))
    /\ lastOp' = Op("stop", NoSession, NoCallback)
    /\ UNCHANGED <<staleTicks, managerVars, frameVars, particleVars, contextVars>>

SetXRSession ==
    \E s \in Sessions \cup {NoSession}, cb \in Callbacks \cup {NoCallback} :
        /\ Bounded(setXRSession(LoopState, s, cb))
        /\ SetLoop(setXRSession(LoopState, s, cb))
        /\ lastOp' = Op("setXRSession", s, cb)
        /\ staleTicks' = IF running /\ xrSession # NoSession /\ s = NoSession
                         THEN [staleTicks EXCEPT ![xrSession] = sessionRaf'[xrSession]]
                         ELSE staleTicks
        /\ UNCHANGED <<managerVars, frameVars, particleVars, contextVars>>

WindowFrame ==
    /\ windowRaf # <<>>
    /\ Bounded(windowFrame(LoopState))
    /\ SetLoop(windowFrame(LoopState))
    /\ lastOp' = Op("windowFrame", NoSession, NoCallback)
    /\ UNCHANGED <<staleTicks, managerVars, frameVars, particleVars, contextVars>>

SessionFrame ==
    \E s \in Sessions :
        /\ sessionRaf[s] > 0
        /\ Bounded(sessionFrame(LoopState, s))
        /\ SetLoop(sessionFrame(LoopState, s))
        /\ lastOp' = Op("sessionFrame", s, NoCallback)
        /\ staleTicks' = [staleTicks EXCEPT ![s] = 0]
        /\ UNCHANGED <<managerVars, frameVars, particleVars, contextVars>>

(***************************************************************************)
(* Actions of the session manager and of the host.                         *)
(***************************************************************************)
NewManager ==
    [session |-> NoSession, xrGpuBinding |-> NullObj, projectionLayer |-> NullObj,
     refSpace |-> NullObj, device |-> NoDevice,
     eventListeners |-> [e \in EventTypes |-> <<>>]]

\* a new manager with the one listener App.init registers on each event
AppManager ==
    on(on([m |-> NewManager], "sessionstart", "onXRSessionStart"),
       "sessionend", "onXRSessionEnd").m

\* a call slot that is free, the lowest one
FreeCall(c) ==
    /\ requests[c].pc = "idle"
    /\ \A d \in Calls : d < c => requests[d].pc # "idle"

\* whether the last event emitted so far is a 'sessionstart', given whether it was
\* before the events evs
RECURSIVE StartIsLast(_, _)
StartIsLast(evs, before) ==
    IF evs = <<>> THEN before
    ELSE StartIsLast(Tail(evs), Head(evs).type = "sessionstart")

CallFrom(name, W, before) ==
    [op |-> name, outcome |-> W.out.outcome, trace |-> W.out.trace,
     started |-> StartIsLast(W.events, before)]

Call(name, W) == CallFrom(name, W, lastCall.started)

\* a step of the manager: the fields after it, and the history of the step
Step(name, W) ==
    /\ SetManager(W)
    /\ lastCall' = Call(name, W)
    /\ UNCHANGED <<loopVars, frameVars, particleVars, contextVars>>

\* updateRenderState returns no promise, so the await on it resumes in a microtask:
\* no event and no other call runs before the call that waits there goes on
MicrotaskPending == \E c \in Calls : requests[c].pc = "awaitRenderState"

\* the host rejects the promises a session has outstanding when the session ends, so
\* a reference-space request can only be fulfilled while its session has not ended
CanFulfil(c) ==
    /\ requests[c].asked # NoSession
    /\ xrHost.sessions[requests[c].asked] \in {"active", "ending"}

ManagerInit ==
    /\ xrManager = AppManager
    /\ xrHost \in [navigatorXr : BOOLEAN, sessions : {[s \in Sessions |-> "none"]},
                   endListener : {{}}, pending : {FALSE}]
    /\ requests = [c \in Calls |-> IdleRequest]
    /\ events = <<>>
    /\ lastCall = [op |-> "new", outcome |-> "pending", trace |-> <<>>, started |-> FALSE]

SetDevice ==
    \E W \in {setDevice(ManagerState, GpuDevice)} :
        /\ ~MicrotaskPending
        /\ Step("setDevice", W)

RequestSession ==
    \E c \in Calls :
        /\ ~MicrotaskPending
        /\ FreeCall(c)
        /\ Step("requestSession", requestSession(ManagerState, c))

HostRejectsSession ==
    \E c \in Calls :
        /\ ~MicrotaskPending
        /\ requests[c].pc = "awaitSession"
        /\ Step("sessionRejected", requestSession_rejected(ManagerState, c))

HostGrantsSession ==
    \E c \in Calls, fmt \in Formats, okLayer \in BOOLEAN, okState \in BOOLEAN :
        /\ ~MicrotaskPending
        /\ requests[c].pc = "awaitSession"
        /\ ~requests[c].doomed
        /\ \E s \in Sessions : xrHost.sessions[s] = "none"
        /\ Step("sessionGranted",
                requestSession_granted(ManagerState, c, NextSession(ManagerState),
                                       fmt, okLayer, okState))

RenderStateUpdated ==
    \E c \in Calls :
        /\ requests[c].pc = "awaitRenderState"
        /\ Step("afterRenderState", requestSession_afterRenderState(ManagerState, c))

LocalFloorSettles ==
    \E c \in Calls, ok \in BOOLEAN :
        /\ ~MicrotaskPending
        /\ requests[c].pc = "awaitLocalFloor"
        /\ ok => CanFulfil(c)
        /\ Step("afterLocalFloor", requestSession_afterLocalFloor(ManagerState, c, ok))

LocalSettles ==
    \E c \in Calls, ok \in BOOLEAN :
        /\ ~MicrotaskPending
        /\ requests[c].pc = "awaitLocal"
        /\ ok => CanFulfil(c)
        /\ Step("afterLocal", requestSession_afterLocal(ManagerState, c, ok))

EndSession ==
    \E W \in {endSession(ManagerState)} :
        /\ ~MicrotaskPending
        /\ Step("endSession", W)

SessionEnds ==
    \E s \in Sessions :
        /\ ~MicrotaskPending
        /\ xrHost.sessions[s] \in {"active", "ending"}
        /\ Step("sessionEnds", sessionEnds(ManagerState, s))

\* the application registers a listener; the step's history names the event and the callback
On ==
    \E e \in EventTypes, l \in Listeners :
        \E W \in {[on(ManagerState, e, l) EXCEPT
                      !.out = [outcome |-> "return", trace |-> <<<<"on", e, l>>>>]]} :
            /\ ~MicrotaskPending
            /\ Step("on", W)

\* the application removes a listener
Off ==
    \E e \in EventTypes, l \in Listeners :
        \E W \in {[off(ManagerState, e, l) EXCEPT
                      !.out = [outcome |-> "return", trace |-> <<<<"off", e, l>>>>]]} :
            /\ ~MicrotaskPending
            /\ Step("off", W)

\* a manager on which nothing is registered yet, with a session request that has got
\* as far as the 'local-floor' request, by the operators above
Negotiating ==
    LET W0 == [m |-> NewManager,
               host |-> [navigatorXr |-> TRUE, sessions |-> [s \in Sessions |-> "none"],
                         endListener |-> {}, pending |-> FALSE],
               req |-> [c \in Calls |-> IdleRequest], events |-> <<>>, out |-> NoOutcome]
        W1 == requestSession(setDevice(W0, GpuDevice), 1)
    IN  requestSession_afterRenderState(
            requestSession_granted(W1, 1, NextSession(W1), "rgba8unorm", TRUE, TRUE), 1)

ListenerInit ==
    /\ xrManager = Negotiating.m
    /\ xrHost = Negotiating.host
    /\ requests = Negotiating.req
    /\ events = Negotiating.events
    /\ lastCall = CallFrom("afterRenderState", Negotiating, FALSE)

(***************************************************************************)
(* Actions of the renderer and of the headset frame routine.               *)
(***************************************************************************)
\* the renderer and the blitter as App.init leaves them
AppRenderer ==
    [tr |-> [_initialized |-> TRUE, renderTarget |-> NullObj, cachedGPUTexture |-> NullObj,
             renderTargetInitialized |-> FALSE],
     backend |-> [made |-> 0, textured |-> {}, disposed |-> {}],
     blitter |-> [pipelineCache |-> [f \in Formats |-> NullObj],
                  created |-> [f \in Formats |-> 0]],
     frame |-> <<>>]

Frame(name, views, hasIndex) ==
    [op |-> name, views |-> views, hasIndex |-> hasIndex, pre |-> threeRenderer,
     m |-> xrManager, odd |-> lastFrame.odd]

RendererInit ==
    /\ threeRenderer = AppRenderer.tr
    /\ gpuBackend = AppRenderer.backend
    /\ blitter = AppRenderer.blitter
    /\ frame = <<>>
    /\ lastFrame = [op |-> "new", views |-> 0, hasIndex |-> FALSE, pre |-> AppRenderer.tr,
                    m |-> AppManager, odd |-> FALSE]

RenderStep(name, R) ==
    /\ SetRender(R)
    /\ lastFrame' = Frame(name, 0, FALSE)
    /\ UNCHANGED <<loopVars, managerVars, particleVars, contextVars>>

\* a headset tick delivers a frame to the frame routine; odd tells a frame from the
\* one before it
FrameWith(views, hasIndex) ==
    /\ SetRender(xrRenderFrame(RenderState, xrManager, views, hasIndex))
    /\ lastFrame' = [Frame("xrRenderFrame", views, hasIndex) EXCEPT !.odd = ~lastFrame.odd]
    /\ UNCHANGED <<loopVars, managerVars, particleVars, contextVars>>

XrRenderFrame == \E views \in 0..MaxViews, hasIndex \in BOOLEAN : FrameWith(views, hasIndex)

CreateRenderTarget ==
    /\ gpuBackend.made < MaxTargets
    /\ RenderStep("createRenderTarget", createRenderTarget(RenderState))

InitializeRenderTarget ==
    /\ threeRenderer.renderTarget # NullObj
    /\ RenderStep("initializeRenderTarget", initializeRenderTarget(RenderState))

RenderForXR ==
    /\ threeRenderer.renderTarget # NullObj
    /\ RenderStep("renderForXR", renderForXR(RenderState))

Dispose ==
    /\ threeRenderer.renderTarget # NullObj
    /\ RenderStep("dispose", dispose(RenderState))

\* the host ends the session while frames are being rendered
FrameSessionEnds ==
    \E s \in Sessions :
        /\ xrHost.sessions[s] = "active"
        /\ SetManager(sessionEnds(ManagerState, s))
        /\ lastCall' = Call("sessionEnds", sessionEnds(ManagerState, s))
        /\ UNCHANGED <<loopVars, frameVars, particleVars, contextVars>>

\* a requestSession() that runs to success undisturbed, by the operators above
Negotiated(W, fmt, floor) ==
    LET W1 == requestSession(W, 1)
        W2 == requestSession_afterRenderState(
                  requestSession_granted(W1, 1, NextSession(W1), fmt, TRUE, TRUE), 1)
    IN  IF floor THEN requestSession_afterLocalFloor(W2, 1, TRUE)
        ELSE requestSession_afterLocal(requestSession_afterLocalFloor(W2, 1, FALSE), 1, TRUE)

\* the user starts the next session once the last one has ended; the host may prefer
\* another colour format this time
FrameSessionStarts ==
    /\ xrManager.session = NoSession
    /\ \E s \in Sessions : xrHost.sessions[s] = "none"
    /\ \E fmt \in Formats, floor \in BOOLEAN :
        /\ SetManager(Negotiated(ManagerState, fmt, floor))
        /\ lastCall' = Call("afterLocalFloor", Negotiated(ManagerState, fmt, floor))
    /\ UNCHANGED <<loopVars, frameVars, particleVars, contextVars>>

\* the manager and the host once a requestSession() has succeeded, by the operators above
StartedWith(fmt, floor) ==
    LET W0 == [m |-> AppManager,
               host |-> [navigatorXr |-> TRUE, sessions |-> [s \in Sessions |-> "none"],
                         endListener |-> {}, pending |-> FALSE],
               req |-> [c \in Calls |-> IdleRequest], events |-> <<>>, out |-> NoOutcome]
        W1 == requestSession(setDevice(W0, GpuDevice), 1)
        W2 == requestSession_afterRenderState(
                  requestSession_granted(W1, 1, NextSession(W1), fmt, TRUE, TRUE), 1)
    IN  IF floor THEN requestSession_afterLocalFloor(W2, 1, TRUE)
        ELSE requestSession_afterLocal(requestSession_afterLocalFloor(W2, 1, FALSE), 1, TRUE)

ManagerStarted ==
    \E fmt \in Formats, floor \in BOOLEAN :
        /\ xrManager = StartedWith(fmt, floor).m
        /\ xrHost = StartedWith(fmt, floor).host
        /\ requests = StartedWith(fmt, floor).req
        /\ events = StartedWith(fmt, floor).events
        /\ lastCall = CallFrom("afterLocalFloor", StartedWith(fmt, floor), FALSE)

(***************************************************************************)
(* WebGPUContext and the devices of the host.  gpu is a record with         *)
(*   adapter, device, _xrCompatible   the fields of the context             *)
(*   pc, opt        where an init() in flight stands, and its option        *)
(*   thrown         the error the caller of init() received last            *)
(*   navigatorGpu   whether the browser has navigator.gpu                   *)
(*   devices        the host's devices: none, live, lost or destroyed       *)
(*   onLost         the devices whose lost promise has the context's handler *)
(*   console        what the context wrote to the console                   *)
(*   last           history: the last step                                  *)
(***************************************************************************)
MaxDevices == 2

Devices == 1..MaxDevices

NullDevice == 0

\* new WebGPUContext() on a host
newWebGPUContext(navigatorGpu) ==
    [adapter |-> FALSE, device |-> NullDevice, _xrCompatible |-> FALSE,
     pc |-> "idle", opt |-> FALSE, thrown |-> "none",
     navigatorGpu |-> navigatorGpu,
     devices |-> [d \in Devices |-> "none"],
     onLost |-> {},
     console |-> <<>>,
     last |-> [op |-> "new", device |-> NullDevice, reason |-> "none"]]

consoleLog(C, line) == [C EXCEPT !.console = Append(@, line)]

\* init(options) up to its first await
init_begin(C, xrCompatible) ==
    IF ~C.navigatorGpu
    THEN [C EXCEPT !.thrown = "WebGPU is not supported in this browser"]
    ELSE [C EXCEPT !.pc = "requestAdapter", !.opt = xrCompatible]

\* init after requestAdapter resolved, with an adapter or with null
init_afterAdapter(C, found) ==
    IF ~found
    THEN [C EXCEPT !.adapter = FALSE, !.pc = "idle", !.thrown = "Failed to get GPU adapter"]
    ELSE [C EXCEPT !.adapter = TRUE, !.pc = "requestDevice"]

\* init after requestDevice resolved with device d: the handler of d's loss is
\* registered
init_afterDevice(C, d) ==
    consoleLog([C EXCEPT !.device = d, !._xrCompatible = C.opt, !.pc = "idle",
                  !.devices[d] = "live", !.onLost = @ \cup {d}],
        "WebGPU context initialized")

\* device.lost.then((info) => ...), the context's handler
onDeviceLost(C, reason) ==
    LET C1 == consoleLog(C, "WebGPU device lost")
    IN  IF reason # "destroyed" THEN consoleLog(C1, "Attempting to recover...") ELSE C1

\* the host loses device d, or destroys it, and its lost promise resolves
deviceLost(C, d, reason) ==
    LET C1 == [C EXCEPT !.devices[d] = IF reason = "destroyed" THEN "destroyed" ELSE "lost"]
    IN  IF d \in C.onLost THEN onDeviceLost(C1, reason) ELSE C1

\* WebGPUContext.dispose
WebGPUContext_dispose(C) ==
    LET C1 == IF C.device # NullDevice
              THEN [(IF C.devices[C.device] = "live"
                     THEN deviceLost(C, C.device, "destroyed")
                     ELSE C) EXCEPT !.device = NullDevice]
              ELSE C
    IN  consoleLog([C1 EXCEPT !.adapter = FALSE], "WebGPU context disposed")

ContextOp(name, d, reason) == [op |-> name, device |-> d, reason |-> reason]

ContextIdle == gpu = newWebGPUContext(TRUE)

ContextInit == \E navigatorGpu \in BOOLEAN : gpu = newWebGPUContext(navigatorGpu)

\* the console holds what a context logs for every device and one line more
Quiet(C) == Len(C.console) <= 4 * MaxDevices

ContextInitBegins ==
    /\ gpu.pc = "idle"
    /\ \E xrCompatible \in BOOLEAN :
        gpu' = [init_begin(gpu, xrCompatible) EXCEPT !.last = ContextOp("init", NullDevice, "none")]

ContextAdapterResolves ==
    /\ gpu.pc = "requestAdapter"
    /\ \E found \in BOOLEAN :
        gpu' = [init_afterAdapter(gpu, found) EXCEPT
                   !.last = ContextOp("requestAdapter", NullDevice, "none")]

ContextDeviceResolves ==
    /\ gpu.pc = "requestDevice"
    /\ \E d \in Devices :
        /\ gpu.devices[d] = "none"
        /\ \A e \in Devices : e < d => gpu.devices[e] # "none"
        /\ Quiet(init_afterDevice(gpu, d))
        /\ gpu' = [init_afterDevice(gpu, d) EXCEPT !.last = ContextOp("requestDevice", d, "none")]

ContextDeviceLost ==
    \E d \in Devices :
        /\ gpu.devices[d] = "live"
        /\ Quiet(deviceLost(gpu, d, "unknown"))
        /\ gpu' = [deviceLost(gpu, d, "unknown") EXCEPT !.last = ContextOp("deviceLost", d, "unknown")]

ContextDispose ==
    /\ Quiet(WebGPUContext_dispose(gpu))
    /\ gpu' = [WebGPUContext_dispose(gpu) EXCEPT
                  !.last = ContextOp("dispose", gpu.device, "destroyed")]

(***************************************************************************)
(* Specifications.                                                         *)
(***************************************************************************)
vars == <<loopVars, managerVars, frameVars, particleVars, contextVars>>

Init == LoopInit /\ ManagerInit /\ RendererInit /\ EmitterIdle /\ ContextIdle

\* the render loop, driven through its public methods and by the two schedulers
Next ==
    \/ Start
    \/ Stop
    \/ SetXRSession
    \/ WindowFrame
    \/ SessionFrame

Spec == Init /\ [][Next]_vars

\* the session manager, driven through its public methods and by the host
ManagerNext ==
    \/ SetDevice
    \/ RequestSession
    \/ HostRejectsSession
    \/ HostGrantsSession
    \/ RenderStateUpdated
    \/ LocalFloorSettles
    \/ LocalSettles
    \/ EndSession
    \/ SessionEnds

ManagerSpec == Init /\ [][ManagerNext]_vars

\* listeners coming and going while a session starts and ends
ListenerNext ==
    \/ On
    \/ Off
    \/ LocalFloorSettles
    \/ LocalSettles
    \/ EndSession
    \/ SessionEnds

ListenerStart == LoopInit /\ ListenerInit /\ RendererInit /\ EmitterIdle /\ ContextIdle

ListenerSpec == ListenerStart /\ [][ListenerNext]_vars

\* the frame routine and the renderer while a session is active, and after it ended
FrameInit == LoopInit /\ ManagerStarted /\ RendererInit /\ EmitterIdle /\ ContextIdle

FrameNext ==
    \/ XrRenderFrame
    \/ CreateRenderTarget
    \/ InitializeRenderTarget
    \/ RenderForXR
    \/ Dispose
    \/ FrameSessionEnds
    \/ FrameSessionStarts

FrameSpec == FrameInit /\ [][FrameNext]_vars

\* one emitter, driven as DemoScene drives it: aim, switch, compute
ParticleStart == EmitterInit /\ LoopInit /\ ManagerInit /\ RendererInit /\ ContextIdle

ParticleNext ==
    \/ (SetSpawnPosition /\ UNCHANGED <<loopVars, managerVars, frameVars, contextVars>>)
    \/ (SetSpawnEnabled /\ UNCHANGED <<loopVars, managerVars, frameVars, contextVars>>)
    \/ (Compute /\ UNCHANGED <<loopVars, managerVars, frameVars, contextVars>>)

ParticleSpec == ParticleStart /\ [][ParticleNext]_vars

\* one emitter, as constructed or with a whole preset applied, whose tunables are
\* set while frames are computed
ParamsStart ==
    /\ \E lifetime \in Lifetimes, g \in {{}, Tunables} :
            /\ emitter = setParams(newLinkedParticles(1, 1, lifetime),
                                   [given |-> g, val |-> Tuned(lifetime)])
            /\ age = [i \in 0..0 |-> 0]
    /\ deltaTime \in Deltas
    /\ afterInit = <<>>
    /\ inits = 0
    /\ moves = 0
    /\ frames = 0
    /\ lastParticleOp = [op |-> "new", arg |-> 0, wasFresh |-> TRUE, afterMove |-> FALSE]
    /\ LoopInit /\ ManagerInit /\ RendererInit /\ ContextIdle

ParamsNext ==
    \/ (SetParams /\ UNCHANGED <<loopVars, managerVars, frameVars, contextVars>>)
    \/ (SetSpawnEnabled /\ UNCHANGED <<loopVars, managerVars, frameVars, contextVars>>)
    \/ (Compute /\ UNCHANGED <<loopVars, managerVars, frameVars, contextVars>>)

ParamsSpec == ParamsStart /\ [][ParamsNext]_vars

\* a WebGPUContext whose owner initialises and disposes it while the host may
\* lose its devices
ContextStart == ContextInit /\ LoopInit /\ ManagerInit /\ RendererInit /\ EmitterIdle

ContextNext ==
    \/ (ContextInitBegins /\ UNCHANGED <<loopVars, managerVars, frameVars, particleVars>>)
    \/ (ContextAdapterResolves /\ UNCHANGED <<loopVars, managerVars, frameVars, particleVars>>)
    \/ (ContextDeviceResolves /\ UNCHANGED <<loopVars, managerVars, frameVars, particleVars>>)
    \/ (ContextDeviceLost /\ UNCHANGED <<loopVars, managerVars, frameVars, particleVars>>)
    \/ (ContextDispose /\ UNCHANGED <<loopVars, managerVars, frameVars, particleVars>>)

ContextSpec == ContextStart /\ [][ContextNext]_vars

(***************************************************************************)
(* App: the loop, the manager and the renderer wired as App.init wires     *)
(* them.  The manager calls the App's listeners inside the step that emits  *)
(* the event, and the loop calls the App's frame callbacks inside the       *)
(* animation frame.                                                        *)
(***************************************************************************)
AppState == [loop |-> LoopState, render |-> RenderState]

SetApp(A) == SetLoop(A.loop) /\ SetRender(A.render)

\* ThreeRenderer.renderToCanvas(scene): three.js renders to the canvas and submits
renderToCanvas(R) == IF ~R.tr._initialized THEN R ELSE Did(R, <<"renderToCanvas">>)

\* the callback of startNormalRenderLoop: (time) => { update; renderToCanvas }
normalRenderFrame(R) == renderToCanvas(Did(R, <<"demoScene.update">>))

startNormalRenderLoop(A) == [A EXCEPT !.loop = start(@, "renderToCanvas")]

\* App.onXRSessionStart, with the manager's fields m as the listener finds them
onXRSessionStart(A, m) ==
    LET A1 == IF m.projectionLayer # NullObj
              THEN [A EXCEPT !.render = createRenderTarget(@)]
              ELSE A
    IN  [A1 EXCEPT !.loop = start(setXRSession(@, m.session, NoCallback), "xrRenderFrame")]

\* App.onXRSessionEnd
onXRSessionEnd(A) ==
    startNormalRenderLoop([A EXCEPT !.loop = setXRSession(@, NoSession, NoCallback)])

\* emitEvent's forEach: the listeners of one event, in order
RECURSIVE CallListeners(_, _, _)
CallListeners(A, listeners, m) ==
    IF listeners = <<>> THEN A
    ELSE CallListeners(IF Head(listeners) = "onXRSessionStart"
                       THEN onXRSessionStart(A, m)
                       ELSE onXRSessionEnd(A),
                       Tail(listeners), m)

\* the events of a step of the manager, in order
RECURSIVE Notify(_, _)
Notify(A, evs) ==
    IF evs = <<>> THEN A
    ELSE Notify(CallListeners(A, Head(evs).listeners, Head(evs).seen), Tail(evs))

\* this.callback(time, xrFrame) for the callbacks an animation frame invoked
RECURSIVE RunCallbacks(_, _, _, _, _)
RunCallbacks(R, m, calls, views, hasIndex) ==
    IF calls = <<>> THEN R
    ELSE RunCallbacks(IF Head(calls)[1] = "xrRenderFrame"
                      THEN xrRenderFrame(R, m, views, hasIndex)
                      ELSE normalRenderFrame(R),
                      m, Tail(calls), views, hasIndex)

\* new RenderLoop()
NewLoop ==
    [callback |-> NoCallback, xrSession |-> NoSession, running |-> FALSE,
     animationFrameId |-> NoId, windowRaf |-> <<>>,
     sessionRaf |-> [s \in Sessions |-> 0], invoked |-> <<>>]

\* the App once init() has returned: device set, listeners on, windowed loop started
AppInit ==
    /\ callback = start(NewLoop, "renderToCanvas").callback
    /\ xrSession = NoSession
    /\ running = TRUE
    /\ animationFrameId = start(NewLoop, "renderToCanvas").animationFrameId
    /\ windowRaf = start(NewLoop, "renderToCanvas").windowRaf
    /\ sessionRaf = [s \in Sessions |-> 0]
    /\ invoked = <<>>
    /\ staleTicks = [s \in Sessions |-> 0]
    /\ lastOp = [op |-> "start", session |-> NoSession, cb |-> "renderToCanvas",
                 staleRan |-> 0, wasRunning |-> FALSE, wasSession |-> NoSession]
    /\ xrManager = [AppManager EXCEPT !.device = GpuDevice]
    /\ xrHost = [navigatorXr |-> TRUE, sessions |-> [s \in Sessions |-> "none"],
                 endListener |-> {}, pending |-> FALSE]
    /\ requests = [c \in Calls |-> IdleRequest]
    /\ events = <<>>
    /\ lastCall = [op |-> "setDevice", outcome |-> "return", trace |-> <<>>,
                   started |-> FALSE]
    /\ RendererInit
    /\ EmitterIdle
    /\ ContextIdle

\* toggleVR with no session: the request runs to success and the listener is called
AppSessionStarts ==
    /\ xrManager.session = NoSession
    /\ \E s \in Sessions : xrHost.sessions[s] = "none"
    /\ \E fmt \in Formats, floor \in BOOLEAN :
        LET W == Negotiated(ManagerState, fmt, floor)
        IN  /\ Bounded(Notify(AppState, W.events).loop)
            /\ SetManager(W)
            /\ lastCall' = Call("requestSession", W)
            /\ SetApp(Notify(AppState, W.events))
    /\ lastOp' = Op("sessionstart", NoSession, NoCallback)
    /\ lastFrame' = Frame("sessionstart", 0, FALSE)
    /\ UNCHANGED <<staleTicks, particleVars, contextVars>>

\* toggleVR with a session: endSession() asks the host to end it
AppToggleVR ==
    /\ xrManager.session # NoSession
    /\ xrHost.sessions[xrManager.session] = "active"
    /\ SetManager(endSession(ManagerState))
    /\ lastCall' = Call("endSession", endSession(ManagerState))
    /\ UNCHANGED <<loopVars, frameVars, particleVars, contextVars>>

\* the host ends the session (after end(), or on its own) and the listener is called
AppSessionEnds ==
    /\ \E s \in Sessions :
        /\ xrHost.sessions[s] \in {"active", "ending"}
        /\ LET W == sessionEnds(ManagerState, s)
           IN  /\ Bounded(Notify(AppState, W.events).loop)
               /\ SetManager(W)
               /\ lastCall' = Call("sessionEnds", W)
               /\ SetApp(Notify(AppState, W.events))
    /\ lastOp' = Op("sessionend", NoSession, NoCallback)
    /\ lastFrame' = Frame("sessionend", 0, FALSE)
    /\ UNCHANGED <<staleTicks, particleVars, contextVars>>

\* an animation frame of the window
AppWindowFrame ==
    /\ windowRaf # <<>>
    /\ Bounded(windowFrame(LoopState))
    /\ SetLoop(windowFrame(LoopState))
    /\ SetRender(RunCallbacks(RenderState, xrManager, windowFrame(LoopState).invoked,
                              0, FALSE))
    /\ lastOp' = Op("windowFrame", NoSession, NoCallback)
    /\ lastFrame' = Frame("windowFrame", 0, FALSE)
    /\ UNCHANGED <<staleTicks, managerVars, particleVars, contextVars>>

\* an animation frame of the active session: views is the number of views of the
\* viewer pose the frame has (0: none)
AppSessionFrame ==
    /\ \E s \in Sessions, views \in 0..MaxViews, hasIndex \in BOOLEAN :
        /\ xrHost.sessions[s] \in {"active", "ending"}
        /\ sessionRaf[s] > 0
        /\ Bounded(sessionFrame(LoopState, s))
        /\ SetLoop(sessionFrame(LoopState, s))
        /\ SetRender(RunCallbacks(RenderState, xrManager,
                                  sessionFrame(LoopState, s).invoked, views, hasIndex))
        /\ lastOp' = Op("sessionFrame", s, NoCallback)
        /\ lastFrame' = Frame("sessionFrame", views, hasIndex)
    /\ UNCHANGED <<staleTicks, managerVars, particleVars, contextVars>>

AppNext ==
    \/ AppSessionStarts
    \/ AppToggleVR
    \/ AppSessionEnds
    \/ AppWindowFrame
    \/ AppSessionFrame

AppSpec == AppInit /\ [][AppNext]_vars

\* the same, for every emitter the constructor accepts
ConstructedStart == AnyEmitterInit /\ LoopInit /\ ManagerInit /\ RendererInit /\ ContextIdle

ConstructedSpec == ConstructedStart /\ [][ParticleNext]_vars

(***************************************************************************)
(* Properties of the render loop.                                          *)
(***************************************************************************)
\* ticks pending on the window's and on every session's scheduler
PendingTicks == Len(windowRaf) + SumOver(sessionRaf, Sessions)

\* the step just taken is the operation `name` (pre-state unprimed, post-state primed)
StepIs(name) == lastOp'.op = name

\* C2: start(cb) on an Idle loop leaves the loop running with cb as the
\* callback and exactly one tick pending: on the bound session's scheduler
\* if a session is bound, otherwise on the window's scheduler.
C2_StartFromIdle ==
    (lastOp.op = "start" /\ ~lastOp.wasRunning) =>
        /\ running
        /\ callback = lastOp.cb
        /\ xrSession = lastOp.wasSession
        /\ PendingTicks = 1
        /\ IF xrSession # NoSession THEN sessionRaf[xrSession] = 1 ELSE Len(windowRaf) = 1

\* C3: setXRSession(s, cb?) on a running loop leaves it running in the mode
\* matching s (bound to s, a tick scheduled on s and none on the window if s
\* is a session; the one window tick pending if s is null), the callback
\* replaced by cb when given and kept otherwise; on an Idle loop it leaves
\* the loop Idle and schedules no tick.
C3_SetSessionMode ==
    [][StepIs("setXRSession") =>
        /\ xrSession' = lastOp'.session
        /\ IF running
           THEN /\ running'
                /\ callback' = IF lastOp'.cb # NoCallback THEN lastOp'.cb ELSE callback
                /\ IF lastOp'.session # NoSession
                   THEN /\ windowRaf' = <<>>
                        /\ animationFrameId' = NoId
                        /\ sessionRaf' = [sessionRaf EXCEPT ![lastOp'.session] = @ + 1]
                   ELSE /\ windowRaf' = <<animationFrameId'>>
                        /\ animationFrameId' # NoId
                        /\ sessionRaf' = sessionRaf
           ELSE /\ ~running'
                /\ windowRaf' = windowRaf
                /\ sessionRaf' = sessionRaf]_vars

C3_Witness ==
    /\ lastOp.op = "setXRSession"
    /\ lastOp.wasRunning
    /\ lastOp.wasSession = NoSession
    /\ lastOp.session # NoSession
    /\ lastOp.cb = "xrRenderFrame"
    /\ callback = "xrRenderFrame"
    /\ sessionRaf[lastOp.session] = 1

\* C4: a mode switch by setXRSession cancels the pending tick of the old
\* scheduling source, window or headset, before it installs the new one: after
\* the switch the old source holds no tick, and never do the window and a
\* session both hold one.
C4_SwitchCancelsOldSource ==
    /\ (lastOp.op = "setXRSession" /\ lastOp.wasRunning
          /\ lastOp.wasSession # NoSession /\ lastOp.session # lastOp.wasSession)
        => sessionRaf[lastOp.wasSession] = 0
    /\ (lastOp.op = "setXRSession" /\ lastOp.wasRunning
          /\ lastOp.wasSession = NoSession /\ lastOp.session # NoSession)
        => windowRaf = <<>>
    /\ (windowRaf = <<>> \/ \A s \in Sessions : sessionRaf[s] = 0)

\* C5: a tick scheduled under session A that fires after the loop was
\* switched to a different session B neither invokes the callback nor
\* schedules a further tick.
C5_StaleSessionTickSuppressed ==
    [][(StepIs("sessionFrame") /\ xrSession # NoSession /\ xrSession # lastOp'.session) =>
        /\ invoked' = <<>>
        /\ sessionRaf' = [sessionRaf EXCEPT ![lastOp'.session] = 0]
        /\ windowRaf' = windowRaf]_vars

\* C6: after stop(), in windowed and in headset mode alike, the loop is Idle,
\* its callback is cleared and no tick remains pending on the window or on a
\* session; no frame invokes a callback while the loop is Idle.
C6_StopCancelsAll ==
    /\ lastOp.op = "stop" =>
        /\ ~running
        /\ callback = NoCallback
        /\ PendingTicks = 0
    /\ (lastOp.op \in {"windowFrame", "sessionFrame"} /\ ~lastOp.wasRunning) => invoked = <<>>

\* C7: when a running loop is switched from a session to null it stays
\* running, a window tick is pending with the callback kept, and no tick that
\* was pending on the session at the switch invokes the callback afterwards.
C7_HeadsetToWindowed ==
    [][/\ (StepIs("setXRSession") /\ running /\ xrSession # NoSession
             /\ lastOp'.session = NoSession) =>
           /\ running'
           /\ callback' = IF lastOp'.cb # NoCallback THEN lastOp'.cb ELSE callback
           /\ windowRaf' = <<animationFrameId'>>
       /\ (StepIs("windowFrame") /\ running /\ xrSession = NoSession) =>
           invoked' = <<<<callback, FALSE>>>>
       /\ (StepIs("sessionFrame") /\ lastOp'.staleRan > 0) =>
           Len(invoked') <= sessionRaf[lastOp'.session] - lastOp'.staleRan]_vars

\* C8: start(cb2) on a running loop changes nothing: callback, bound session,
\* running flag, stored handle and the pending ticks of every scheduler stay
\* as they were, and no callback is invoked.
C8_DoubleStartNoOp ==
    [][(StepIs("start") /\ running) =>
        /\ UNCHANGED <<callback, xrSession, running, animationFrameId, windowRaf, sessionRaf>>
        /\ invoked' = <<>>]_vars

C8_Witness ==
    /\ lastOp.op = "start"
    /\ lastOp.wasRunning
    /\ lastOp.cb # callback
    /\ PendingTicks > 0

(***************************************************************************)
(* Properties of the session manager.                                      *)
(***************************************************************************)
\* the manager holds no session, binding, surface or reference frame
Inactive(m) ==
    /\ m.session = NoSession
    /\ m.xrGpuBinding = NullObj
    /\ m.projectionLayer = NullObj
    /\ m.refSpace = NullObj

\* no requestSession() call is waiting for the host
NoCallInFlight == \A c \in Calls : requests[c].pc = "idle"

\* the step just taken on the manager is the operation `name`
CallIs(name) == lastCall'.op = name

\* C9: a session request made while no device has been set fails with the
\* `device not set` error before any host interaction (the navigator.xr
\* look-up, the host session request), leaves session, binding, surface and
\* reference frame null and emits no event.
C9_NoDeviceFailsFirst ==
    [][(CallIs("requestSession") /\ xrManager.device = NoDevice) =>
        /\ lastCall'.outcome = "throw: GPU device not set"
        /\ lastCall'.trace = <<>>
        /\ UNCHANGED <<xrManager, xrHost, requests>>
        /\ Inactive(xrManager')
        /\ events' = <<>>]_vars

C9_Witness ==
    /\ lastCall.op = "requestSession"
    /\ lastCall.outcome = "throw: GPU device not set"
    /\ xrManager.device = NoDevice
    /\ xrHost.navigatorXr

\* C10: requestSession called while a session is held returns without an
\* error, issues no host session request, changes none of session, binding,
\* surface and reference frame, and emits no event.
C10_AlreadyActiveNoOp ==
    [][(CallIs("requestSession") /\ xrManager.session # NoSession) =>
        /\ lastCall'.outcome = "return: already active"
        /\ \A i \in DOMAIN lastCall'.trace : lastCall'.trace[i][1] # "xr.requestSession"
        /\ UNCHANGED <<xrManager, xrHost>>
        /\ events' = <<>>]_vars

C10_Witness ==
    /\ lastCall.op = "requestSession"
    /\ lastCall.outcome = "return: already active"
    /\ xrManager.session # NoSession
    /\ xrManager.refSpace # NullObj
    /\ xrHost.sessions[xrManager.session] = "active"

\* the host interactions of a call's trace that are one of `names`, in order
Only(trace, names) == SelectSeq(trace, LAMBDA e : e[1] \in names)

\* the names of a trace's entries
NamesOf(trace) == [i \in DOMAIN trace |-> trace[i][1]]

\* the steps of a session negotiation the manager makes with the host, and the event
NegotiationSteps ==
    {"xr.requestSession", "new XRGPUBinding", "getPreferredColorFormat",
     "createProjectionLayer", "updateRenderState", "requestReferenceSpace", "emit"}

\* C11: a requestSession that succeeds has made, in this order, the host
\* session request requiring 'webgpu', the binding, the preferred-format
\* query, the projection layer with the format the query answered, the render
\* state update with that layer and the reference-space request(s); it emits
\* 'sessionstart' exactly once, last, with the session as payload, and session,
\* binding, layer and reference space are all non-null when the listeners run.
C11_SuccessOrder ==
    [][lastCall'.outcome = "return: started" =>
        LET t == Only(lastCall'.trace, NegotiationSteps)
        IN  /\ NamesOf(t) \in
                 {<<"xr.requestSession", "new XRGPUBinding", "getPreferredColorFormat",
                    "createProjectionLayer", "updateRenderState", "requestReferenceSpace",
                    "emit">>,
                  <<"xr.requestSession", "new XRGPUBinding", "getPreferredColorFormat",
                    "createProjectionLayer", "updateRenderState", "requestReferenceSpace",
                    "requestReferenceSpace", "emit">>}
            /\ t[1] = <<"xr.requestSession", "immersive-vr", "webgpu">>
            /\ t[4][2] = t[3][2]
            /\ t[5][2] = <<t[2][2], t[3][2]>>
            /\ lastCall'.trace[Len(lastCall'.trace)] = <<"emit", "sessionstart">>
            /\ Len(events') = 1
            /\ events'[1].type = "sessionstart"
            /\ events'[1].payload = t[2][2]
            /\ events'[1].payload # NoSession
            /\ events'[1].seen.session = events'[1].payload
            /\ events'[1].seen.xrGpuBinding # NullObj
            /\ events'[1].seen.projectionLayer # NullObj
            /\ events'[1].seen.refSpace # NullObj]_vars

\* the part of C11 the manager keeps: a request whose session is still the manager's
\* session when it completes has made the steps in order and emits as C11 says
C11_UndisturbedSuccess ==
    [][(lastCall'.outcome = "return: started"
          /\ Only(lastCall'.trace, NegotiationSteps)[2][2] = xrManager.session) =>
        LET t == Only(lastCall'.trace, NegotiationSteps)
        IN  /\ Len(t) \in {7, 8}
            /\ t[4][2] = t[3][2]
            /\ t[5][2] = <<t[2][2], t[3][2]>>
            /\ Len(events') = 1
            /\ events'[1].payload = t[2][2]
            /\ events'[1].seen.session = events'[1].payload
            /\ events'[1].seen.xrGpuBinding # NullObj
            /\ events'[1].seen.projectionLayer # NullObj
            /\ events'[1].seen.refSpace # NullObj]_vars

C11_Witness ==
    /\ lastCall.outcome = "return: started"
    /\ lastCall.op = "afterLocal"
    /\ Len(events) = 1
    /\ xrManager.refSpace = <<xrManager.session, "local">>
    /\ xrManager.projectionLayer[2] = "bgra8unorm"

\* the reference-space requests of a call and how the host settled them, in order
RefSpaceSteps(trace) == Only(trace, {"requestReferenceSpace", "settled"})

C13_EndClearsAndEmitsOnce ==
    [][/\ (CallIs("sessionEnds") /\ xrManager.session # NoSession
             /\ xrHost.sessions[xrManager.session] # "ended"
             /\ xrHost'.sessions[xrManager.session] = "ended") =>
           /\ Inactive(xrManager')
           /\ Len(events') = 1
           /\ events'[1].type = "sessionend"
           /\ events'[1].payload = NoSession
           /\ events'[1].listeners = xrManager.eventListeners["sessionend"]
       /\ CallIs("endSession") =>
           /\ xrManager' = xrManager
           /\ events' = <<>>
           /\ \A s \in Sessions : xrHost'.sessions[s] # xrHost.sessions[s] =>
                 /\ s = xrManager.session
                 /\ xrHost'.sessions[s] = "ending"]_vars

C13_Witness ==
    /\ lastCall.op = "sessionEnds"
    /\ Inactive(xrManager)
    /\ Len(events) = 1
    /\ events[1].type = "sessionend"
    /\ events[1].seen.refSpace # NullObj
    /\ \E s \in Sessions : xrHost.sessions[s] = "ended"

\* a sequence without a repeated element
NoRepeat(q) == \A i, j \in DOMAIN q : q[i] = q[j] => i = j

\* C14: an emission invokes the listeners registered for the event, each
\* exactly once, in the order in which they were registered: on() of a
\* callback that is not registered puts it last, on() of a registered one
\* changes nothing, off() removes the callback and keeps the order of the rest,
\* and no other step changes the listeners.
C14_ListenersOrderedIdempotent ==
    [][/\ \A i \in DOMAIN events' :
             /\ events'[i].listeners = xrManager.eventListeners[events'[i].type]
             /\ NoRepeat(events'[i].listeners)
       /\ CallIs("on") =>
             LET e == lastCall'.trace[1][2]
                 l == lastCall'.trace[1][3]
             IN  /\ xrManager'.eventListeners[e] =
                       IF l \in Range(xrManager.eventListeners[e])
                       THEN xrManager.eventListeners[e]
                       ELSE Append(xrManager.eventListeners[e], l)
                 /\ \A f \in EventTypes \ {e} :
                       xrManager'.eventListeners[f] = xrManager.eventListeners[f]
       /\ CallIs("off") =>
             LET e == lastCall'.trace[1][2]
                 l == lastCall'.trace[1][3]
             IN  /\ xrManager'.eventListeners[e] = Remove(xrManager.eventListeners[e], l)
                 /\ \A f \in EventTypes \ {e} :
                       xrManager'.eventListeners[f] = xrManager.eventListeners[f]
       /\ ~(CallIs("on") \/ CallIs("off")) =>
             xrManager'.eventListeners = xrManager.eventListeners]_vars

\* an emission that called two listeners, the one registered in the App's order reversed
C14_Witness ==
    /\ Len(events) = 1
    /\ events[1].type = "sessionend"
    /\ events[1].listeners = <<"onXRSessionEnd", "onXRSessionStart">>

(***************************************************************************)
(* Properties of the headset frame routine.                                *)
(***************************************************************************)
\* the positions of the frame's trace at which `what` was called
Where(what) == {i \in DOMAIN frame : frame[i][1] = what}

\* a frame delivered while the session is active, with a viewer pose of at least
\* one view and the offscreen texture at hand
RenderedFrame ==
    /\ lastFrame.op = "xrRenderFrame"
    /\ lastFrame.views >= 1
    /\ ~Inactive(lastFrame.m)
    /\ lastFrame.pre.cachedGPUTexture # NullObj

\* C1: in a headset frame with a viewer pose of n >= 1 views the frame routine
\* calls the scene's compute() exactly once, before the first view is handled,
\* transfers every view and then submits to the command queue exactly once.
C1_ComputeOncePerFrame ==
    RenderedFrame =>
        /\ Cardinality(Where("demoScene.compute")) = 1
        /\ \A i \in Where("demoScene.compute"), j \in Where("updateCameraFromXRView") : i < j
        /\ Cardinality(Where("blit")) = lastFrame.views
        /\ Where("queue.submit") = {Len(frame)}

\* the part of C1 the frame routine does keep: one submission, after all transfers
C1_OneSubmission ==
    RenderedFrame =>
        /\ Cardinality(Where("blit")) = lastFrame.views
        /\ Where("queue.submit") = {Len(frame)}

(***************************************************************************)
(* Properties of the emitter.                                              *)
(***************************************************************************)
ParticleStepIs(name) == lastParticleOp'.op = name

Life(i) == emitter.particlePositions[i].w

Alive == {i \in Slots(emitter) : Life(i) > 0}

\* C15: every compute() moves the ring cursor by exactly K modulo N, with the
\* enabled flag set or cleared and whatever slots are alive, and the cursor
\* stays within 0 <= cursor < N.
C15_CursorAdvances ==
    [][ParticleStepIs("compute") =>
        /\ emitter'.spawnIndex = (emitter.spawnIndex + emitter.nbToSpawn) % emitter.nbParticles
        /\ emitter'.spawnIndex >= 0
        /\ emitter'.spawnIndex < emitter.nbParticles]_vars

\* a compute() with the flag cleared and a live slot left the cursor wrapped past N
C15_Witness ==
    /\ lastParticleOp.op = "compute"
    /\ emitter.spawnEnabled = 0
    /\ Alive # {}
    /\ frames * emitter.nbToSpawn > emitter.nbParticles
    /\ emitter.spawnIndex = (frames * emitter.nbToSpawn) % emitter.nbParticles
    /\ emitter.spawnIndex # 0

\* C16: over the calls of compute() on one emitter the Init stage is dispatched
\* exactly once, first in the first call; every call dispatches Integrate and
\* then Spawn, so the slots a call spawns leave it with a full life.
C16_StageOrder ==
    [][ParticleStepIs("compute") =>
        /\ emitter'.stages = IF frames = 0 THEN <<"init", "update", "spawn">>
                              ELSE <<"update", "spawn">>
        /\ inits' = 1
        /\ \A i \in Slots(emitter) :
               (emitter.spawnEnabled >= 1 /\ ((i + emitter.nbParticles - emitter.spawnIndex)
                    % emitter.nbParticles) < emitter.nbToSpawn)
               => emitter'.particlePositions[i].w = LifeOne]_vars

\* a later call that spawned onto a live slot: no Init stage, and the slot is full again
C16_Witness ==
    /\ lastParticleOp.op = "compute"
    /\ frames >= 2
    /\ inits = 1
    /\ emitter.stages = <<"update", "spawn">>
    /\ emitter.nbParticles = emitter.nbToSpawn
    /\ \A i \in Slots(emitter) : Life(i) = LifeOne /\ age[i] = 0

\* C17: for every N > 0 the Init stage leaves every slot with the negative
\* sentinel as its life, every sprite with an opacity <= 0 and every ribbon
\* with alpha 0.
C17_InitHidesAll ==
    afterInit # <<>> =>
        \A i \in Slots(afterInit) :
            /\ afterInit.particlePositions[i].w < 0
            /\ \A circle \in {0, 1} : spriteOpacity(afterInit, i, circle) <= 0
            /\ \A ribbon \in {1, 2} : ribbonOpacity(afterInit, i, ribbon) = 0

\* the Init stage has run on an emitter of the largest size
C17_Witness ==
    /\ afterInit # <<>>
    /\ afterInit.nbParticles = MaxParticles
    /\ "init" \in Range(afterInit.stages)

\* slots the Spawn stage has written: alive, or aged to death
Spawned == {i \in Slots(emitter) : Life(i) > 0 \/ age[i] > 0}

\* the least n with n * d >= x, for d > 0
CeilDiv(x, d) == (x + d - 1) \div d

\* C18: a spawned particle leaves the compute() that spawned it with life exactly
\* 1; at a constant frame delta dt every later Integrate takes dt / lifetime off
\* it, and its life is first <= 0 after ceil(lifetime / dt) Integrate stages.
C18_LifeDecay ==
    \A i \in Spawned :
        /\ age[i] = 0 => Life(i) = LifeOne
        /\ emitter.particleLifetime * (LifeOne - Life(i)) = age[i] * LifeOne * deltaTime
        /\ Life(i) <= 0 => age[i] = CeilDiv(emitter.particleLifetime, deltaTime)
        /\ Life(i) > 0 => age[i] < CeilDiv(emitter.particleLifetime, deltaTime)

\* C18 as the shader has it: every Integrate takes 0.1 * dt / lifetime off the
\* life, which is first <= 0 after ceil(10 * lifetime / dt) Integrate stages.
C18_LifeDecayTenth ==
    \A i \in Spawned :
        /\ age[i] = 0 => Life(i) = LifeOne
        /\ 10 * emitter.particleLifetime * (LifeOne - Life(i)) = age[i] * LifeOne * deltaTime
        /\ Life(i) <= 0 => age[i] = CeilDiv(10 * emitter.particleLifetime, deltaTime)
        /\ Life(i) > 0 => age[i] < CeilDiv(10 * emitter.particleLifetime, deltaTime)

\* a particle that lived through one Integrate and died in the second
C18_Witness ==
    \E i \in Spawned :
        /\ age[i] = 2
        /\ Life(i) <= 0
        /\ 10 * emitter.particleLifetime = 2 * deltaTime

\* C19: the first compute() of a fresh emitter with spawning enabled and K <= N
\* leaves exactly the K slots at ring indices 0..K-1 with life 1, every other
\* slot with life <= 0, and the cursor at K mod N.
C19_FirstBatch ==
    [][(ParticleStepIs("compute") /\ frames = 0 /\ emitter.spawnEnabled = 1) =>
        /\ emitter.spawnIndex = 0
        /\ \A i \in Slots(emitter) :
              IF i < emitter.nbToSpawn
              THEN emitter'.particlePositions[i].w = LifeOne
              ELSE emitter'.particlePositions[i].w <= 0
        /\ Cardinality({i \in Slots(emitter) : emitter'.particlePositions[i].w = LifeOne})
              = emitter.nbToSpawn
        /\ emitter'.spawnIndex = emitter.nbToSpawn % emitter.nbParticles]_vars

\* the first compute() spawned a batch smaller than the ring
C19_Witness ==
    /\ lastParticleOp.op = "compute"
    /\ lastParticleOp.wasFresh
    /\ frames = 1
    /\ emitter.spawnEnabled = 1
    /\ emitter.nbToSpawn >= 2
    /\ emitter.nbToSpawn < emitter.nbParticles
    /\ emitter.spawnIndex = emitter.nbToSpawn
    /\ Alive = 0..(emitter.nbToSpawn - 1)

\* the slots the step's Spawn stage writes
Batch ==
    {i \in Slots(emitter) :
        emitter.spawnEnabled >= 1
        /\ ((i + emitter.nbParticles - emitter.spawnIndex) % emitter.nbParticles)
               < emitter.nbToSpawn}

\* x lies within the spawn radius of the segment between a and b
NearSegment(x, a, b) == x >= Min(a, b) - rRange /\ x <= Max(a, b) + rRange

Candidates(view, me) ==
    {j \in DOMAIN view :
        j # me /\ view[j].w > 0 /\ lengthSq(view[me].xyz, view[j].xyz) > 0}

\* a is nearer to me than b, the lower slot first at equal distance
Nearer(view, me, a, b) ==
    LET da == lengthSq(view[me].xyz, view[a].xyz)
        db == lengthSq(view[me].xyz, view[b].xyz)
    IN  da < db \/ (da = db /\ a < b)

\* the nearest slot of S, -1 for none
Nearest(view, me, S) ==
    IF S = {} THEN 0 - 1
    ELSE CHOOSE a \in S : \A b \in S \ {a} : Nearer(view, me, a, b)

\* C21: for every live particle the neighbour scan of Integrate yields the two
\* nearest other live particles in ascending order of squared distance, the
\* lower slot first at equal distance, never the particle itself, a dead one
\* or one at distance zero, and it yields a neighbour whenever there is such a
\* candidate, whatever its distance.
C21_TwoNearest ==
    emitter.initialized =>
        \A late \in SUBSET Racing(emitter), me \in Racing(emitter) :
            LET view == View(emitter, deltaTime, late, me)
                c == Neighbours(emitter, deltaTime, late, me)
                first == Nearest(view, me, Candidates(view, me))
            IN  /\ c.closestIndex1 = first
                /\ c.closestIndex2 = Nearest(view, me, Candidates(view, me) \ {first})

\* the part of C21 the scan keeps: the two nearest among the candidates nearer
\* than the distance the scan starts from
C21_TwoNearestInReach ==
    emitter.initialized =>
        \A late \in SUBSET Racing(emitter), me \in Racing(emitter) :
            LET view == View(emitter, deltaTime, late, me)
                c == Neighbours(emitter, deltaTime, late, me)
                inReach == {j \in Candidates(view, me) :
                               lengthSq(view[me].xyz, view[j].xyz) < FarDist}
                first == Nearest(view, me, inReach)
            IN  /\ c.closestIndex1 = first
                /\ c.closestIndex2 = Nearest(view, me, inReach \ {first})

\* the other slots alive as the step's Integrate stage begins
OthersAlive(i) == Racing(emitter) \ {i}

C23_NoEmptyEmitter ==
    /\ emitter.nbParticles > 0
    /\ emitter.spawnIndex # NaN

(***************************************************************************)
(* Properties of the transfer.                                             *)
(***************************************************************************)
\* the transfers of the last frame, in order
Blits == SelectSeq(frame, LAMBDA e : e[1] = "blit")

\* C24: the transfer picks its way by the formats: a direct copy without channel
\* reordering when source and destination formats are equal, the quad draw with
\* channel reordering only when they differ.
C24_StrategyByFormat ==
    \A k \in DOMAIN Blits :
        IF Blits[k][3] = SourceFormat
        THEN Blits[k][5] = "copy" /\ Blits[k][6] = "asIs"
        ELSE Blits[k][5] = "draw" /\ Blits[k][6] = "swapRB"

\* C25: over the frames on one device a pipeline is made exactly once per
\* destination format: a frame whose destination format was seen before makes
\* none, and each transfer uses the pipeline of its destination's format.
C25_OnePipelinePerFormat ==
    [][lastFrame'.op = "xrRenderFrame" =>
        /\ \A f \in Formats :
              LET used == \E i \in DOMAIN frame' :
                              frame'[i][1] = "blit" /\ frame'[i][3] = f
              IN  blitter'.created[f] =
                      IF blitter.created[f] = 0 /\ used THEN 1 ELSE blitter.created[f]
        /\ \A i \in DOMAIN frame' :
              frame'[i][1] = "blit" => frame'[i][7] = frame'[i][3]]_vars

\* frames of two views have gone to destinations of both formats
C25_Witness ==
    /\ RenderedFrame
    /\ Len(Blits) = 2
    /\ \A f \in Formats : blitter.created[f] = 1

\* C26: each view's transfer goes to the layer of its sub-image's image index,
\* and without an image index to the layer of the view's position in the pose,
\* so no two views of a frame write the same layer.
C26_LayerPerView ==
    RenderedFrame =>
        /\ \A k \in DOMAIN Blits : Blits[k][4] = k - 1
        /\ \A k, l \in DOMAIN Blits : k # l => Blits[k][4] # Blits[l][4]

\* C28: getParams() reads back what setParams() wrote: after setParams(p) every
\* tunable present in p is read back equal to p's value and every tunable absent
\* from p reads as before; compute() changes nothing getParams() returns.
C28_ParamsRoundTrip ==
    [][/\ ParticleStepIs("setParams") =>
            \A f \in Tunables :
                getParams(emitter')[f] =
                    IF f \in lastParticleOp'.arg.given
                    THEN lastParticleOp'.arg.val[f]
                    ELSE getParams(emitter)[f]
       /\ ParticleStepIs("compute") => getParams(emitter') = getParams(emitter)]_vars

\* a frame computed after a partial setParams: the speed and the bias are those
\* of the preset, the turbulence frequency alone was put back
C28_Witness ==
    /\ lastParticleOp.op = "compute"
    /\ getParams(emitter).colorRotationSpeed = Tuned(1).colorRotationSpeed
    /\ getParams(emitter).velocityBias = Tuned(1).velocityBias
    /\ getParams(emitter).turbFrequency = getParams(newLinkedParticles(1, 1, 1)).turbFrequency
    /\ Alive # {}

(***************************************************************************)
(* Properties of the WebGPUContext.                                        *)
(***************************************************************************)
\* what the owner of a context can see of it: its fields and the error its last
\* call received
OwnerView(C) == <<C.adapter, C.device, C._xrCompatible, C.thrown>>

\* what the context has asked of the host: an init in flight and the devices made
Asked(C) == <<C.pc, {d \in Devices : C.devices[d] # "none"}>>

\* C29: when the host loses the context's device, the owner is told (what the
\* owner sees of the context changes), and the context asks the host for nothing:
\* no adapter or device is requested again.
C29_LossPropagated ==
    [][(gpu'.last.op = "deviceLost" /\ gpu'.last.device = gpu.device) =>
            /\ OwnerView(gpu') # OwnerView(gpu)
            /\ Asked(gpu') = Asked(gpu)]_vars

\* the part of C29 that holds: a loss starts no request to the host and replaces
\* neither the adapter nor the device
C29_NoRetry ==
    [][gpu'.last.op = "deviceLost" =>
            /\ Asked(gpu') = Asked(gpu)
            /\ gpu'.adapter = gpu.adapter
            /\ gpu'.device = gpu.device]_vars

(***************************************************************************)
(* Properties of the App.                                                  *)
(***************************************************************************)
\* C30: once a headset session has started while the windowed loop was running,
\* the loop's callback is the headset frame routine, and every callback a headset
\* tick invokes is that routine, not the windowed render.
C30_HeadsetCallback ==
    /\ (running /\ xrSession # NoSession) => callback = "xrRenderFrame"
    /\ lastOp.op = "sessionFrame" =>
          \A k \in DOMAIN invoked : invoked[k][1] = "xrRenderFrame"

\* C27: a headset tick without a viewer pose, or before the offscreen texture is
\* there, renders nothing, transfers nothing and submits nothing, and the loop
\* has asked the session for the next tick.
C27_SkippedTick ==
    (/\ lastOp.op = "sessionFrame"
     /\ invoked # <<>>
     /\ lastFrame.views = 0 \/ lastFrame.pre.cachedGPUTexture = NullObj) =>
        /\ Where("renderToCanvas") = {}
        /\ Where("renderToTarget") = {}
        /\ Where("blit") = {}
        /\ Where("queue.submit") = {}
        /\ sessionRaf[lastOp.session] > 0

\* the part of C27 the frame routine keeps when it is the one called: without a
\* viewer pose or an offscreen texture it renders, transfers and submits nothing
C27_SkippedFrame ==
    (/\ lastFrame.op = "xrRenderFrame"
     /\ lastFrame.views = 0 \/ lastFrame.pre.cachedGPUTexture = NullObj) =>
        /\ Where("renderToTarget") = {}
        /\ Where("blit") = {}
        /\ Where("queue.submit") = {}

\* C31: after any sequence of start, stop and setXRSession at most one tick chain
\* is live: a frame of a scheduler invokes the callback at most once, and a
\* running loop has at most one tick pending on the source it is bound to.
C31_OneTickChain ==
    /\ Len(invoked) <= 1
    /\ running => IF xrSession # NoSession
                  THEN sessionRaf[xrSession] <= 1
                  ELSE Len(windowRaf) <= 1

\* the ways a requestSession() fails once the host has granted the session
FailedAfterGrant ==
    {"throw: createProjectionLayer", "throw: updateRenderState",
     "throw: reference space rejected", "throw: TypeError"}

\* C32: a session request that fails after the host granted the session leaves
\* the manager Inactive (session, binding, surface and reference frame null) and
\* emits no start event, and a requestSession answered `already active` finds a
\* session that was started or one that another call is still negotiating.
C32_FailedRequestLeavesInactive ==
    /\ lastCall.outcome \in FailedAfterGrant =>
        /\ Inactive(xrManager)
        /\ \A k \in DOMAIN events : events[k].type # "sessionstart"
    /\ lastCall.outcome = "return: already active" =>
        xrManager.refSpace # NullObj \/ ~NoCallInFlight

\* C33: the events the manager emits alternate 'sessionstart', 'sessionend',
\* beginning with 'sessionstart': a 'sessionend' follows an unmatched
\* 'sessionstart', a 'sessionstart' follows a 'sessionend' or nothing, and a
\* 'sessionstart' is never emitted for a session that has ended.
C33_EventsAlternate ==
    [][\A k \in DOMAIN events' :
          /\ (events'[k].type = "sessionend") =
                StartIsLast(SubSeq(events', 1, k - 1), lastCall.started)
          /\ events'[k].type = "sessionstart" =>
                /\ events'[k].payload # NoSession
                /\ xrHost'.sessions[events'[k].payload] # "ended"]_vars

\* the requestSession() calls that wait for the host's answer to a session request
AwaitingSession(req) == {c \in Calls : req[c].pc = "awaitSession"}

\* C34: a requestSession called while an earlier call waits for the host's
\* session issues no second host session request, and never is more than one
\* session live on the host.
C34_OneRequestInFlight ==
    [][/\ (CallIs("requestSession") /\ AwaitingSession(requests) # {}) =>
            AwaitingSession(requests') = AwaitingSession(requests)
       /\ Cardinality({s \in Sessions : xrHost'.sessions[s] \in {"active", "ending"}}) <= 1]_vars

\* C35: the listeners of 'sessionend' are called with the manager's session state
\* already cleared: what they read of session, binding, surface and reference
\* frame is null.
C35_EndListenersSeeInactive ==
    \A k \in DOMAIN events :
        (events[k].type = "sessionend" /\ events[k].listeners # <<>>) =>
            Inactive(events[k].seen)

\* the particle buffer between the stages of the compute() about to run: after
\* Init, and after Integrate (no slot's life or position depends on the order in
\* which the invocations of Integrate run)
BufferAfterInit == initialize(emitter).particlePositions
BufferAfterIntegrate == updateFn(initialize(emitter), deltaTime, {}).particlePositions

\* the ring indices [cursor, cursor + K) modulo N
RingSlots ==
    {(emitter.spawnIndex + j) % emitter.nbParticles : j \in 0..(emitter.nbToSpawn - 1)}

C37_DeadRibbonsDark ==
    [][ParticleStepIs("compute") =>
        LET inited == initialize(emitter)
            integrated == BufferAfterIntegrate
        IN  \A i \in Slots(emitter) :
              /\ integrated[i].w <= 0 => emitter'.linksColors[i] = <<0, 0>>
              /\ i \in Racing(inited) => \E late \in SUBSET (Racing(inited) \ {i}) :
                   LET view == View(inited, deltaTime, late, i)
                       inReach == {j \in Candidates(view, i) :
                                      lengthSq(view[i].xyz, view[j].xyz) < FarDist}
                       first == Nearest(view, i, inReach)
                       second == Nearest(view, i, inReach \ {first})
                       lifeOf(j) == IF j < 0 THEN 0 ELSE view[j].w
                   IN  emitter'.linksColors[i] =
                          <<Max(0, Min(integrated[i].w, lifeOf(first))),
                            Max(0, Min(integrated[i].w, lifeOf(second)))>>]_vars

\* after a compute() a particle that was spawned and has died lies next to one
\* that lives on: its ribbons are dark
C37_Witness ==
    /\ lastParticleOp.op = "compute"
    /\ \E i, j \in Slots(emitter) :
         /\ Life(i) <= 0 /\ age[i] > 0
         /\ emitter.linksColors[i] = <<0, 0>>
         /\ Life(j) > 0 /\ Life(j) < LifeOne

\* the render targets the backend has made and not disposed
LiveTargets == {<<n>> : n \in 1..gpuBackend.made} \ gpuBackend.disposed

\* C38: the offscreen texture handed to the transfer step belongs to the current
\* offscreen target: getRenderTargetGPUTexture never returns the texture of a target
\* that was replaced or disposed, and at most one offscreen target is live at a time
C38_TextureOfCurrentTarget ==
    /\ getRenderTargetGPUTexture(RenderState) # NullObj =>
           /\ getRenderTargetGPUTexture(RenderState) = threeRenderer.renderTarget
           /\ getRenderTargetGPUTexture(RenderState) \notin gpuBackend.disposed
    /\ Cardinality(LiveTargets) <= 1

\* lemma of C38: at most one target is live, and a re-created target starts with no
\* texture cached
C38_OneLiveTarget ==
    /\ Cardinality(LiveTargets) <= 1
    /\ lastFrame.op = "createRenderTarget" => getRenderTargetGPUTexture(RenderState) = NullObj

\* a session is active and the offscreen target has been created
TargetReady ==
    /\ xrManager.session # NoSession
    /\ xrManager.xrGpuBinding # NullObj
    /\ xrManager.projectionLayer # NullObj
    /\ xrManager.refSpace # NullObj
    /\ threeRenderer.renderTarget # NullObj

\* the session delivers a frame with a viewer pose to the frame routine
PosedFrame ==
    /\ xrManager.session # NoSession
    /\ \E views \in 1..MaxViews, hasIndex \in BOOLEAN : FrameWith(views, hasIndex)

\* the last step was a headset frame that issued a command submission
Submitted == lastFrame.op = "xrRenderFrame" /\ Where("queue.submit") # {}

\* FrameSpec on a host that keeps delivering posed frames while the session lasts
FrameLiveSpec == FrameInit /\ [][FrameNext]_vars /\ WF_vars(PosedFrame)

\* C39: once a session is active and the offscreen target has been created, a frame
\* routine invoked every frame with a viewer pose eventually obtains the offscreen
\* texture and issues a command submission (unless the session ends or the target is
\* destroyed first): the 'no offscreen texture yet' skip does not persist forever
C39_SkipIsTransient == TargetReady ~> (Submitted \/ ~TargetReady)

\* lemma of C39: a headset frame never gives the renderer a cached texture it did not
\* have, so a frame routine that skips keeps skipping
C39_FrameCachesNothing ==
    [][(lastFrame'.op = "xrRenderFrame" /\ threeRenderer.cachedGPUTexture = NullObj) =>
           threeRenderer'.cachedGPUTexture = NullObj]_vars

\* lemma of C39: the App, which calls createRenderTarget and renderToTarget only, never
\* has an offscreen texture to hand to the transfer step
C39_AppHasNoTexture == getRenderTargetGPUTexture(RenderState) = NullObj

TypeOK ==
    /\ callback \in Callbacks \cup {NoCallback}
    /\ xrSession \in Sessions \cup {NoSession}
    /\ running \in BOOLEAN
    /\ animationFrameId \in RafIds \cup {NoId}
    /\ Range(windowRaf) \subseteq RafIds
    /\ sessionRaf \in [Sessions -> 0..MaxPending]

=============================================================================
